---- MODULE Spec2Model ----
(***************************************************************************)
(* Verification model of the agent's command executor                      *)
(* (package agent: CommandExecutor, limitedWriter).                        *)
(*                                                                         *)
(* Go strings are modelled as sequences of one-character strings, so that  *)
(* strings.Contains, strings.HasPrefix, filepath.IsAbs and filepath.Dir    *)
(* are computed character by character as the library computes them.       *)
(* Error values are sequences of string parts (format text, then the       *)
(* formatted argument); the nil error is the empty sequence.  The         *)
(* backquote character is written "backtick".                              *)
(***************************************************************************)
EXTENDS Integers, Sequences, FiniteSets, TLC

VARIABLES
    \* ---- CommandExecutor configuration (fixed by loadConfig) ----
    whitelist,        \* [isNil : BOOLEAN, entries : Seq(string)]
    allowedPaths,     \* Seq(string)
    \* ---- ValidateCommand applied to one input ----
    vCommand,         \* the command string handed to ValidateCommand
    vState,           \* "input" before the call, "checked" after it
    vErr,             \* the error ValidateCommand returned (<<>> = nil)
    \* ---- the two limitedWriters of one execution ----
    maxOutputSize,    \* ce.maxOutputSize
    lw,               \* stream -> [writer : bytes.Buffer content, maxSize, bytesLeft]
    lwRet,            \* stream -> [n, len]: what the last Write returned, for which len(p)
    childOut,         \* stream -> every byte the child wrote so far, in order
    \* ---- the history ring on its own ----
    history,          \* ce.history
    appendLog,        \* every entry ever handed to addToHistory, in order
    \* ---- CommandExecutor state shared by concurrent ExecuteCommand calls ----
    maxConcurrent,    \* ce.maxConcurrent
    rateLimit,        \* ce.rateLimit
    sem,              \* number of slots in ce.concurrentSemaphore
    rateLimitTracker, \* client key -> timestamps of the admitted requests
    now,              \* the wall clock, in seconds
    \* ---- one ExecuteCommand call per caller ----
    pc,               \* caller -> position in ExecuteCommand
    req,               \* caller -> the CommandRequest (Timeout after clamping)
    clientKey,        \* caller -> the clientKey argument
    startTime,        \* caller -> startTime
    validationErr,    \* caller -> the error ValidateCommand returned to the call
    deadline,         \* caller -> deadline of cmdCtx
    child,            \* caller -> [state, status] of the child process
    resp,             \* caller -> the CommandResponse returned
    \* ---- bookkeeping of the model ----
    nCalls,           \* ExecuteCommand calls made so far
    spawned,          \* caller -> child processes created by the current call
    appended,         \* caller -> history entries added by the current call
    acquired,         \* caller -> the current call took a slot of the semaphore
    rlLog,            \* client key -> [t, ok] of every checkRateLimit call
    \* ---- operations observed on their own ----
    historyQuery,     \* one GetHistory call: [state, limit, result]
    clamp,            \* one timeout on its way: [stage, sent, hub, agent]
    envWhitelist,     \* the value of COMMAND_WHITELIST that loadConfig reads
    ctor,             \* NewCommandExecutor under way: [env, pc, i]
    agent,            \* the Agent: [commandExecutor, built, caller -> position]
    slices,           \* backing arrays, ce.history and a slice GetHistory returned
    db,               \* the tenants table, the schemas and the CreateTenant calls
    \* ---- the caller's side of a call, the hub and the session ----
    ctxDone,          \* caller -> the ctx passed to ExecuteCommand was cancelled
    hub,              \* one API request on its way through the hub's handler
    session           \* one hub-agent session and the SendAndWait calls on it

\* the operations observed on their own; no step of ExecuteCommand touches them
aloneVars == <<historyQuery, clamp, envWhitelist, ctor, agent, slices, db>>

\* the caller's context, the hub's handler and the session
rpcVars == <<ctxDone, hub, session>>

cfgVars == <<whitelist, allowedPaths, maxOutputSize, aloneVars, rpcVars>>

validateVars == <<vCommand, vState, vErr>>

writerVars == <<lw, lwRet, childOut>>

historyVars == <<history, appendLog>>

execCfgVars == <<maxConcurrent, rateLimit>>

sharedVars == <<sem, rateLimitTracker, now>>

callVars == <<pc, req, clientKey, startTime, validationErr, deadline, child, resp>>

ghostVars == <<nCalls, spawned, appended, acquired, rlLog>>

execVars == <<execCfgVars, sharedVars, callVars, ghostVars>>

vars == <<cfgVars, validateVars, writerVars, historyVars, execVars>>

(***************************************************************************)
(* Strings                                                                 *)
(***************************************************************************)
\* s[from..] with from counted from 1, empty when from is past the end
Drop(s, n) == SubSeq(s, n + 1, Len(s))

\* strings.HasPrefix
HasPrefix(s, prefix) ==
    /\ Len(prefix) <= Len(s)
    /\ SubSeq(s, 1, Len(prefix)) = prefix

\* strings.Contains
Contains(s, substr) ==
    \E i \in 1..(Len(s) - Len(substr) + 1) : SubSeq(s, i, i + Len(substr) - 1) = substr

\* strings.ContainsAny
ContainsAny(s, chars) == \E i \in 1..Len(s) : s[i] \in chars

\* filepath.IsAbs on unix
IsAbs(path) == HasPrefix(path, <<"/">>)

\* index of the last "/" of path, 0 when there is none
LastSlash(path) ==
    LET idx == {i \in 1..Len(path) : path[i] = "/"}
    IN  IF idx = {} THEN 0 ELSE CHOOSE i \in idx : \A j \in idx : j <= i

\* the elements of path between separators, empty ones included
RECURSIVE SplitSlash(_)
SplitSlash(path) ==
    LET idx == {i \in 1..Len(path) : path[i] = "/"}
    IN  IF idx = {} THEN <<path>>
        ELSE LET i == CHOOSE k \in idx : \A j \in idx : k <= j
             IN  <<SubSeq(path, 1, i - 1)>> \o SplitSlash(Drop(path, i))

\* filepath.Clean's element loop: "" and "." are skipped, ".." removes the
\* element before it (at the root it is dropped; in a relative path with
\* nothing to remove it is kept)
RECURSIVE CleanElems(_, _, _)
CleanElems(elems, out, rooted) ==
    IF elems = <<>> THEN out
    ELSE LET e == Head(elems)
             rest == Tail(elems)
         IN  IF e = <<>> \/ e = <<".">> THEN CleanElems(rest, out, rooted)
             ELSE IF e = <<".", ".">>
                  THEN IF out # <<>> /\ out[Len(out)] # <<".", ".">>
                       THEN CleanElems(rest, SubSeq(out, 1, Len(out) - 1), rooted)
                       ELSE IF rooted THEN CleanElems(rest, out, rooted)
                            ELSE CleanElems(rest, Append(out, e), rooted)
                  ELSE CleanElems(rest, Append(out, e), rooted)

RECURSIVE JoinSlash(_)
JoinSlash(elems) ==
    IF elems = <<>> THEN <<>>
    ELSE IF Len(elems) = 1 THEN Head(elems)
    ELSE Head(elems) \o <<"/">> \o JoinSlash(Tail(elems))

\* filepath.Clean on unix
Clean(path) ==
    IF path = <<>> THEN <<".">>
    ELSE LET rooted == path[1] = "/"
             body == JoinSlash(CleanElems(SplitSlash(path), <<>>, rooted))
         IN  IF rooted THEN <<"/">> \o body
             ELSE IF body = <<>> THEN <<".">> ELSE body

\* filepath.Dir on unix: everything up to the last separator, cleaned
Dir(path) == Clean(SubSeq(path, 1, LastSlash(path)))

(***************************************************************************)
(* Configuration literals of loadConfig and ValidateCommand                *)
(***************************************************************************)
\* loadConfig: the default whitelist for production
DefaultWhitelist ==
    << <<"/", "u", "s", "r", "/", "b", "i", "n", "/", "c", "u", "r", "l">>,
       <<"/", "u", "s", "r", "/", "b", "i", "n", "/", "w", "g", "e", "t">>,
       <<"/", "b", "i", "n", "/", "p", "s">>,
       <<"/", "u", "s", "r", "/", "b", "i", "n", "/", "s", "y", "s", "t", "e", "m", "c", "t", "l">>,
       <<"/", "b", "i", "n", "/", "h", "o", "s", "t", "n", "a", "m", "e">>,
       <<"/", "u", "s", "r", "/", "b", "i", "n", "/", "u", "p", "t", "i", "m", "e">>,
       <<"/", "b", "i", "n", "/", "d", "a", "t", "e">>,
       <<"/", "b", "i", "n", "/", "w", "h", "o", "a", "m", "i">>,
       <<"/", "u", "s", "r", "/", "b", "i", "n", "/", "d", "o", "c", "k", "e", "r">>,
       <<"/", "u", "s", "r", "/", "l", "o", "c", "a", "l", "/", "b", "i", "n", "/", "d", "o", "c", "k", "e", "r">>,
       <<"/", "b", "i", "n", "/", "c", "a", "t">>,
       <<"/", "u", "s", "r", "/", "b", "i", "n", "/", "h", "e", "a", "d">>,
       <<"/", "u", "s", "r", "/", "b", "i", "n", "/", "t", "a", "i", "l">>,
       <<"/", "b", "i", "n", "/", "l", "s">>,
       <<"/", "u", "s", "r", "/", "b", "i", "n", "/", "f", "i", "n", "d">>,
       <<"/", "b", "i", "n", "/", "e", "c", "h", "o">>,
       <<"/", "b", "i", "n", "/", "p", "w", "d">>,
       <<"/", "b", "i", "n", "/", "s", "l", "e", "e", "p">>,
       <<"/", "u", "s", "r", "/", "b", "i", "n", "/", "e", "n", "v">> >>

\* loadConfig: the default allowed paths
DefaultAllowedPaths ==
    << <<"/", "u", "s", "r", "/", "b", "i", "n">>,
       <<"/", "b", "i", "n">>,
       <<"/", "u", "s", "r", "/", "l", "o", "c", "a", "l", "/", "b", "i", "n">>,
       <<"/", "u", "s", "r", "/", "s", "b", "i", "n">>,
       <<"/", "s", "b", "i", "n">> >>

\* loadConfig: the dangerous-command blacklist (always blocked)
Blacklist ==
    << <<"r", "m", " ", "-", "r", "f">>,
       <<"m", "k", "f", "s">>,
       <<"d", "d", " ">>,
       <<"f", "d", "i", "s", "k">>,
       <<"p", "a", "r", "t", "e", "d">>,
       <<"s", "h", "u", "t", "d", "o", "w", "n">>,
       <<"r", "e", "b", "o", "o", "t">>,
       <<"h", "a", "l", "t">>,
       <<"p", "o", "w", "e", "r", "o", "f", "f">>,
       <<":", "(", ")", "{", ":", "|", ":", "&", "}", ";", ":">> >>

\* the injection patterns with the tab forgotten
InjectionPatternsNoTab ==
    << <<";">>,
       <<"|">>,
       <<"&">>,
       <<"$", "(">>,
       <<"backtick">>,
       <<"\n">>,
       <<"\r">> >>

\* ValidateCommand: injectionPatterns
InjectionPatterns ==
    << <<";">>,
       <<"|">>,
       <<"&">>,
       <<"$", "(">>,
       <<"backtick">>,
       <<"\n">>,
       <<"\r">>,
       <<"\t">> >>

(***************************************************************************)
(* ValidateCommand                                                         *)
(***************************************************************************)
NilError == <<>>

Rejected(err) == err # NilError

\* index of the first pattern of patterns that command contains, 0 if none
\* (the range loops of ValidateCommand return at the first match)
FirstContained(patterns, command) ==
    LET hit == {i \in 1..Len(patterns) : Contains(command, patterns[i])}
    IN  IF hit = {} THEN 0 ELSE CHOOSE i \in hit : \A j \in hit : i <= j

\* the path check: some allowed path is a string prefix of the command's directory
PathAllowed(paths, command) ==
    \E i \in 1..Len(paths) : HasPrefix(Dir(command), paths[i])

\* the whitelist check with the separating space forgotten
WhitelistAllowsAnyPrefix(entries, command) ==
    \E i \in 1..Len(entries) : HasPrefix(command, entries[i])

\* the whitelist check: the command is an entry, or an entry, a space and more
WhitelistAllows(entries, command) ==
    \E i \in 1..Len(entries) :
        \/ command = entries[i]
        \/ HasPrefix(command, entries[i] \o <<" ">>)

\* ValidateCommand with the injection scan run before the blacklist scan
ValidateCommandInjectionFirst(wl, paths, command) ==
    LET dangerous == FirstContained(Blacklist, command)
        pattern == FirstContained(InjectionPatterns, command)
    IN  IF pattern # 0
        THEN <<"command contains injection pattern: ", InjectionPatterns[pattern]>>
        ELSE IF dangerous # 0
        THEN <<"command contains dangerous pattern: ", Blacklist[dangerous]>>
        ELSE IF IsAbs(command) /\ ~PathAllowed(paths, command)
        THEN <<"command path not in allowed paths: ", Dir(command)>>
        ELSE IF ~wl.isNil /\ ~WhitelistAllows(wl.entries, command)
        THEN <<"command not in whitelist: ", command>>
        ELSE NilError

\* ValidateCommand with the whitelist check run before the path check
ValidateCommandWhitelistFirst(wl, paths, command) ==
    LET dangerous == FirstContained(Blacklist, command)
        pattern == FirstContained(InjectionPatterns, command)
    IN  IF dangerous # 0
        THEN <<"command contains dangerous pattern: ", Blacklist[dangerous]>>
        ELSE IF pattern # 0
        THEN <<"command contains injection pattern: ", InjectionPatterns[pattern]>>
        ELSE IF ~wl.isNil /\ ~WhitelistAllows(wl.entries, command)
        THEN <<"command not in whitelist: ", command>>
        ELSE IF IsAbs(command) /\ ~PathAllowed(paths, command)
        THEN <<"command path not in allowed paths: ", Dir(command)>>
        ELSE NilError

ValidateCommand(wl, paths, command) ==
    LET dangerous == FirstContained(Blacklist, command)
        pattern == FirstContained(InjectionPatterns, command)
    IN  IF dangerous # 0
        THEN <<"command contains dangerous pattern: ", Blacklist[dangerous]>>
        ELSE IF pattern # 0
        THEN <<"command contains injection pattern: ", InjectionPatterns[pattern]>>
        ELSE IF IsAbs(command) /\ ~PathAllowed(paths, command)
        THEN <<"command path not in allowed paths: ", Dir(command)>>
        ELSE IF ~wl.isNil /\ ~WhitelistAllows(wl.entries, command)
        THEN <<"command not in whitelist: ", command>>
        ELSE NilError

(***************************************************************************)
(* limitedWriter                                                           *)
(***************************************************************************)
Streams == {"stdout", "stderr"}

\* ExecuteCommand: stdoutWriter, stderrWriter as constructed
NewLimitedWriter(size) == [writer |-> <<>>, maxSize |-> size, bytesLeft |-> size]

\* Write with the truncation of the straddling chunk forgotten
LimitedWriteNoCut(w, p) ==
    IF w.bytesLeft <= 0
    THEN [w |-> w, n |-> Len(p)]
    ELSE [w |-> [w EXCEPT !.writer = @ \o p, !.bytesLeft = @ - Len(p)],
          n |-> Len(p)]

\* limitedWriter.Write: the writer afterwards and the count n it returns
LimitedWrite(w, p) ==
    IF w.bytesLeft <= 0
    THEN [w |-> w, n |-> Len(p)]
    ELSE IF Len(p) > w.bytesLeft
    THEN [w |-> [w EXCEPT !.writer = @ \o SubSeq(p, 1, w.bytesLeft),
                          !.bytesLeft = 0],
          n |-> w.bytesLeft]
    ELSE [w |-> [w EXCEPT !.writer = @ \o p, !.bytesLeft = @ - Len(p)],
          n |-> Len(p)]

(***************************************************************************)
(* The history ring                                                        *)
(***************************************************************************)
\* addToHistory: "Keep only last 100 entries"
HistoryCap == 100

\* addToHistory keeping the oldest entries instead of the newest
AddToHistoryKeepOldest(h, entry) ==
    LET all == Append(h, entry)
    IN  IF Len(all) > HistoryCap THEN SubSeq(all, 1, HistoryCap) ELSE all

\* addToHistory: append, then cut to the last HistoryCap entries
AddToHistory(h, entry) ==
    LET all == Append(h, entry)
    IN  IF Len(all) > HistoryCap
        THEN SubSeq(all, Len(all) - HistoryCap + 1, Len(all))
        ELSE all

(***************************************************************************)
(* ExecuteCommand: the pure parts                                          *)
(***************************************************************************)
\* NewCommandExecutor: the defaults; times are in seconds
DefaultMaxOutputSize == 1048576

DefaultMaxConcurrent == 5

DefaultRateLimit == 10

RateLimitWindow == 60

\* capacity of the concurrentSemaphore channel
SemaphoreCap == 5

\* ExecuteCommand: "Set default timeout"
DefaultTimeout == 30

MaxTimeout == 300

\* the agent's clamp that forgets the upper limit
ClampTimeoutNoMax(t) == IF t <= 0 THEN DefaultTimeout ELSE t

ClampTimeout(t) ==
    IF t <= 0 THEN DefaultTimeout
    ELSE IF t > MaxTimeout THEN MaxTimeout
    ELSE t

\* the CommandResponse literal; Stdout and Stderr are the writers' buffers
\* (see limitedWriter) and are left out here
Response(exitCode, error, duration) ==
    [ExitCode |-> exitCode, Error |-> error, Duration |-> duration]

NoResponse == Response(0, NilError, 0)

\* the refusal that passes the validation error on without the prefix
ValidationFailedNoPrefix(err) == Response(-1, err, 0)

\* the response to a command that ValidateCommand refused
ValidationFailed(err) ==
    Response(-1, <<"command validation failed: ">> \o err, 0)

\* checkRateLimit: the timestamps of key still inside the window at time t
ValidTimestamps(timestamps, t) ==
    SelectSeq(timestamps, LAMBDA ts : t - ts < RateLimitWindow)

\* checkRateLimit recording the timestamp of a request it refuses as well
CheckRateLimitRecordsRefused(tracker, key, t, limit) ==
    LET valid == ValidTimestamps(tracker[key], t)
    IN  [tracker |-> [tracker EXCEPT ![key] = Append(valid, t)],
         err |-> IF Len(valid) >= limit
                 THEN <<"rate limit exceeded: ", ToString(limit),
                        " commands per ", "1m0s">>
                 ELSE NilError]

\* checkRateLimit admitting as long as the window holds limit entries or less
CheckRateLimitOffByOne(tracker, key, t, limit) ==
    LET valid == ValidTimestamps(tracker[key], t)
    IN  IF Len(valid) > limit
        THEN [tracker |-> tracker,
              err |-> <<"rate limit exceeded: ", ToString(limit),
                        " commands per ", "1m0s">>]
        ELSE [tracker |-> [tracker EXCEPT ![key] = Append(valid, t)],
              err |-> NilError]

\* checkRateLimit: the tracker afterwards and the error returned
CheckRateLimit(tracker, key, t, limit) ==
    LET valid == ValidTimestamps(tracker[key], t)
    IN  IF Len(valid) >= limit
        THEN [tracker |-> tracker,
              err |-> <<"rate limit exceeded: ", ToString(limit),
                        " commands per ", "1m0s">>]
        ELSE [tracker |-> [tracker EXCEPT ![key] = Append(valid, t)],
              err |-> NilError]

\* the response to a request that checkRateLimit refused
RateLimitedResponse(err) == Response(-1, err, 0)

\* the select that takes a slot whether or not one is left
TryAcquireAlways(s) == [ok |-> TRUE, sem |-> s]

\* select { case <-ce.concurrentSemaphore: ... default: ... } on a semaphore
\* that holds s slots
TryAcquire(s) ==
    IF s > 0 THEN [ok |-> TRUE, sem |-> s - 1] ELSE [ok |-> FALSE, sem |-> s]

SlotsExhaustedResponse ==
    Response(-1, <<"maximum concurrent command execution limit reached">>, 0)

\* the env check that looks at the values only
EnvInvalidValuesOnly(env) ==
    \E kv \in env : ContainsAny(kv[2], {"\n", "\r"})

\* ExecuteCommand: some key or value of req.Env contains CR or LF
\* (a nil Env is the empty set of pairs)
EnvInvalid(env) ==
    \E kv \in env :
        \/ ContainsAny(kv[1], {"\n", "\r"})
        \/ ContainsAny(kv[2], {"\n", "\r"})

EnvRejectedResponse ==
    Response(-1, <<"environment variable contains invalid characters">>, 0)

\* what cmd.Run returned: nil, an *exec.ExitError with the exit code
\* (-1 when the child was ended by a signal), an error that os.IsNotExist
\* accepts, or any other error
RunNil == [kind |-> "nil", code |-> 0, text |-> NilError]

RunExitError(code, text) == [kind |-> "ExitError", code |-> code, text |-> text]

RunNotExist ==
    [kind |-> "NotExist", code |-> 0,
     text |-> <<"fork/exec: no such file or directory">>]

RunOther ==
    [kind |-> "Other", code |-> 0, text |-> <<"fork/exec: permission denied">>]

\* "Determine exit code" with the timeout test forgotten
BuildResponseNoTimeout(err, deadlineExceeded, duration) ==
    CASE err.kind = "nil" -> Response(0, NilError, duration)
      [] err.kind = "ExitError" -> Response(err.code, err.text, duration)
      [] err.kind = "NotExist" -> Response(127, <<"command not found">>, duration)
      [] OTHER -> Response(-1, err.text, duration)

\* "Build response" and "Determine exit code": err is what cmd.Run returned,
\* deadlineExceeded is cmdCtx.Err() == context.DeadlineExceeded
BuildResponse(err, deadlineExceeded, duration) ==
    CASE err.kind = "nil" -> Response(0, NilError, duration)
      [] err.kind = "ExitError" ->
            IF deadlineExceeded
            THEN Response(-2, <<"command execution timed out">>, duration)
            ELSE Response(err.code, err.text, duration)
      [] err.kind = "NotExist" -> Response(127, <<"command not found">>, duration)
      [] OTHER -> Response(-1, err.text, duration)

\* the child process of a call
NoChild == [state |-> "none", status |-> 0]

RunningChild == [state |-> "running", status |-> 0]

\* cmd.Run's result for a child that ended: nil for status 0, an ExitError
\* otherwise
WaitResult(c) ==
    IF c.state = "killed" THEN RunExitError(-1, <<"signal: killed">>)
    ELSE IF c.status = 0 THEN RunNil
    ELSE RunExitError(c.status, <<"exit status ", ToString(c.status)>>)

\* the CommandHistoryEntry of "Add to history" (Args and Workdir are copied
\* from the request unchanged and are left out)
HistoryEntry(command, timestamp, duration, exitCode) ==
    [Command |-> command, Timestamp |-> timestamp, Duration |-> duration,
     ExitCode |-> exitCode]

(***************************************************************************)
(* Inputs of the validation model: commands are concatenations of at most  *)
(* MaxAtoms fragments; the fragments are every blacklist entry, every      *)
(* injection pattern and path and argument pieces.                         *)
(***************************************************************************)
MaxAtoms == 2

PathAtoms ==
    { <<"/", "b", "i", "n", "/", "l", "s">>,
      <<"/", "b", "i", "n", "/", "c", "a", "t">>,
      <<"/", "u", "s", "r", "/", "b", "i", "n", "/", "v", "i", "m">>,
      <<"/", "t", "m", "p", "/", "x">>,
      <<"/", "b", "i", "n", "-", "e", "x", "t", "r", "a", "/", "l", "s">>,
      <<"/", ".", ".">>,
      <<" ">>,
      <<"l", "s">>,
      <<"$">>,
      <<"-", "h">> }

\* every blacklist substring and injection pattern, as input fragments
DangerAtoms ==
    { <<"r", "m", " ", "-", "r", "f">>,
      <<"m", "k", "f", "s">>,
      <<"d", "d", " ">>,
      <<"f", "d", "i", "s", "k">>,
      <<"p", "a", "r", "t", "e", "d">>,
      <<"s", "h", "u", "t", "d", "o", "w", "n">>,
      <<"r", "e", "b", "o", "o", "t">>,
      <<"h", "a", "l", "t">>,
      <<"p", "o", "w", "e", "r", "o", "f", "f">>,
      <<":", "(", ")", "{", ":", "|", ":", "&", "}", ";", ":">>,
      <<";">>, <<"|">>, <<"&">>, <<"$", "(">>, <<"backtick">>,
      <<"\n">>, <<"\r">>, <<"\t">> }

Atoms == DangerAtoms \cup PathAtoms

RECURSIVE CommandsUpTo(_)
CommandsUpTo(n) ==
    IF n = 0 THEN {<<>>}
    ELSE LET shorter == CommandsUpTo(n - 1)
         IN  shorter \cup {c \o a : c \in shorter, a \in Atoms}

\* whitelist configurations: allow_all (nil), the default, and a custom list
\* that names a relative command and a blacklisted one
WhitelistConfigs ==
    { [isNil |-> TRUE, entries |-> <<>>],
      [isNil |-> FALSE, entries |-> DefaultWhitelist],
      [isNil |-> FALSE, entries |-> << <<"l", "s">>, <<"r", "m", " ", "-", "r", "f">> >>] }

AllowedPathsConfigs ==
    { DefaultAllowedPaths,
      << <<"/", "t", "m", "p">> >>,
      << >> }

(***************************************************************************)
(* Inputs and bounds of the writer, history and executor models            *)
(***************************************************************************)
\* largest output cap (bytes per stream) the model configures
MaxOut == 3

\* longest chunk handed to one Write call, and most bytes a child writes to
\* one stream
MaxChunk == 3

MaxWritten == 5

\* the child's output: the byte at position i of a stream has value i, so
\* that every position is told apart; Write never looks at the content
ChildBytes(from, n) == [i \in 1..n |-> from + i]

\* number of executions the history model records
MaxAppends == 103

EchoCommand == <<"/", "b", "i", "n", "/", "e", "c", "h", "o">>

\* the entry of the n-th recorded execution: started at second n, with one
\* of the exit codes ExecuteCommand produces
HistoryEntryOf(n) ==
    HistoryEntry(EchoCommand, n, 0,
                 CASE n % 4 = 0 -> 0
                   [] n % 4 = 1 -> 2
                   [] n % 4 = 2 -> -2
                   [] OTHER -> 127)

\* the callers of ExecuteCommand and the configurations of the executor
Procs == {1, 2}

SlotConfigs == {1}

RateLimitConfigs == {1}

\* calls made in all, and clock steps
MaxCalls == 2

MaxTicks == 1

\* the clock of the executor model advances by one rate-limit window, which
\* is past the default command timeout
TickStep == RateLimitWindow

\* "default" is what Agent.ExecuteCommand passes, "test" what the tests pass
ClientKeys == {"default", "test"}

\* the rate limiter on its own: largest limit, checkRateLimit calls, clock steps
MaxRate == 2

MaxChecks == 5

MaxRateTicks == 2

\* the clock of the rate limiter model advances by half a window
RateTickStep == DefaultTimeout

RmCommand == <<"r", "m", " ", "-", "r", "f", " ", "/">>

TestVar == <<"T", "E", "S", "T", "_", "V", "A", "R">>

Request(command, timeout, env) ==
    [Command |-> command, Timeout |-> timeout, Env |-> env]

\* the requests the callers issue; req.Env is a set of <<name, value>>
\* pairs (nil is the empty set); timeout 0 becomes 30, 400 becomes 300:
\*   an accepted command with a valid variable, a blacklisted command,
\*   a valid variable together with one whose value contains LF,
\*   a variable whose name contains CR
Requests ==
    { Request(EchoCommand, 0, { <<TestVar, <<"t", "e", "s", "t", "_", "v", "a", "l", "u", "e">>>> }),
      Request(RmCommand, 0, {}),
      Request(EchoCommand, 0, { <<<<"O", "K">>, <<"1">>>>,
                                <<TestVar, <<"t", "e", "s", "t", "\n", "v", "a", "l", "u", "e">>>> }),
      Request(EchoCommand, 400, { <<<<"A", "\r", "B">>, <<"v">>>> }) }

NoRequest == [Command |-> <<>>, Timeout |-> 0, Env |-> {}]

\* exit statuses of a child that ends by itself
ExitStatuses == {0, 2}

(***************************************************************************)
(* The caller's context, the hub's API handlers and the session            *)
(***************************************************************************)
\* the API requests that arrive at the hub, each in its own request task
ApiCalls == {1, 2}

\* the one agent the system manager knows
KnownAgent == "agent-1"

\* the agent ids of the requests' paths: none, the known one, an unknown one
AgentIds == {"", KnownAgent, "agent-x"}

\* h.sm.GetSystem(agentID): err == nil only for a system of the manager
GetSystem(agentID) == [err |-> agentID # KnownAgent]

\* the action tag SendAndWait is given for a request of each kind
ActionOf(kind) ==
    IF kind = "execute" THEN "ExecuteCommand" ELSE "ExecuteCommand"

\* the Data of an AgentResponse, by what it decodes to: nothing, a
\* CommandResponse (of which ExitCode and Error are kept), or a list of
\* CommandHistoryEntry (of which the length is kept)
NoData == [form |-> "none", ExitCode |-> 0, Error |-> "", entries |-> 0]

ResponseData(code, error) ==
    [form |-> "CommandResponse", ExitCode |-> code, Error |-> error, entries |-> 0]

HistoryData(n) ==
    [form |-> "History", ExitCode |-> 0, Error |-> "", entries |-> n]

\* Data that decodes to nothing: empty, cut short, or of another shape
Garbage == [form |-> "garbage", ExitCode |-> 0, Error |-> "", entries |-> 0]

\* common.AgentResponse, the response envelope
NoEnvelope == [Error |-> "", Data |-> NoData]

\* error values: nil, and the ones the handlers tell apart
NilErr == [is |-> "nil", text |-> ""]

DeadlineExceeded == [is |-> "DeadlineExceeded", text |-> "context deadline exceeded"]

Disconnected == [is |-> "Disconnected", text |-> "disconnected"]

ErrorsNew(text) == [is |-> "Other", text |-> text]

\* what cbor.Unmarshal returns for Data that does not decode into the target
CborError == ErrorsNew("cbor: cannot unmarshal")

\* the zero CommandResponse the handler starts from
ZeroResponse == [ExitCode |-> 0, Error |-> ""]

\* commandResponseHandler.Handle: the envelope's error is stored in
\* result.Error, then Data is decoded into result; "error" is omitempty, so
\* a decoded CommandResponse without one leaves result.Error as it is
CommandHandle(agentResponse) ==
    LET preset == [ZeroResponse EXCEPT !.Error = agentResponse.Error]
    IN  IF agentResponse.Data.form = "CommandResponse"
        THEN [err |-> NilErr,
              result |-> [ExitCode |-> agentResponse.Data.ExitCode,
                          Error |-> IF agentResponse.Data.Error # ""
                                    THEN agentResponse.Data.Error
                                    ELSE preset.Error]]
        ELSE [err |-> CborError, result |-> preset]

\* historyResponseHandler.Handle
HistoryHandle(agentResponse) ==
    IF agentResponse.Error # ""
    THEN [err |-> ErrorsNew(agentResponse.Error), result |-> 0]
    ELSE IF agentResponse.Data.form = "History"
    THEN [err |-> NilErr, result |-> agentResponse.Data.entries]
    ELSE [err |-> CborError, result |-> 0]

\* the body of an HTTP answer: {"error": text}, a CommandResponse, or
\* {"history": entries}
NoBody == [kind |-> "none", error |-> "", response |-> ZeroResponse, history |-> 0]

ErrorBody(text) == [NoBody EXCEPT !.kind = "error", !.error = text]

Answer(status, body) == [http |-> status, body |-> body]

\* an executeCommand that lets the exit code decide the HTTP status
ExecuteAnswerByExitCode(err, response) ==
    IF err.is # "nil"
    THEN IF err.is = "DeadlineExceeded"
         THEN Answer(504, ErrorBody("command execution timed out"))
         ELSE Answer(500, ErrorBody(err.text))
    ELSE IF response.ExitCode # 0
    THEN Answer(500, ErrorBody(response.Error))
    ELSE Answer(200, [NoBody EXCEPT !.kind = "response", !.response = response])

\* executeCommand, from the return of executeCommandOnAgent on
ExecuteAnswer(err, response) ==
    IF err.is # "nil"
    THEN IF err.is = "DeadlineExceeded"
         THEN Answer(504, ErrorBody("command execution timed out"))
         ELSE Answer(500, ErrorBody(err.text))
    ELSE Answer(200, [NoBody EXCEPT !.kind = "response", !.response = response])

\* getCommandHistory, from the return of getCommandHistoryFromAgent on
HistoryAnswer(err, entries) ==
    IF err.is # "nil"
    THEN Answer(500, ErrorBody(err.text))
    ELSE Answer(200, [NoBody EXCEPT !.kind = "history", !.history = entries])

\* a lookup that takes any system of the manager for an online one
LookupAnswerAnyStatus(agentID, status) ==
    IF GetSystem(agentID).err
    THEN Answer(404, ErrorBody("agent not found"))
    ELSE Answer(0, NoBody)

\* both handlers, "Get system from system manager" and "Check if agent is
\* online": the answer that ends the request, http 0 if it goes on
LookupAnswer(agentID, status) ==
    IF GetSystem(agentID).err
    THEN Answer(404, ErrorBody("agent not found"))
    ELSE IF status # "online"
    THEN Answer(503, ErrorBody("agent is offline"))
    ELSE Answer(0, NoBody)

\* how a SendAndWait call ended: not yet, with the response envelope, with
\* the error of its ctx, or with the session closed
NoOutcome == [kind |-> "none", env |-> NoEnvelope]

\* what SendAndWait returns to the hub for a call that ended so, handler
\* being the Handle of the call's kind
SendAndWaitError(outcome, handled) ==
    IF outcome.kind = "response" THEN handled.err
    ELSE IF outcome.kind = "deadline" THEN DeadlineExceeded
    ELSE Disconnected

\* an API request that has not arrived
NoApiCall ==
    [pc |-> "none", kind |-> "none", agentID |-> "", arg |-> 0, id |-> 0,
     outcome |-> NoOutcome, http |-> 0, body |-> NoBody]

\* the hub before any request: the known agent is offline
NoHub == [status |-> "offline", calls |-> [c \in ApiCalls |-> NoApiCall]]

\* no session was made yet
NoSession ==
    [attached |-> FALSE, connected |-> FALSE, closes |-> 0, nextId |-> 1,
     pending |-> {}, wire |-> <<>>, answered |-> {}, inbox |-> {},
     resolved |-> [c \in ApiCalls |-> 0]]

\* a nil slice: no backing array
NilSlice == [arr |-> 0, off |-> 0, len |-> 0, cap |-> 0]

\* no backing array allocated, ce.history nil, no slice handed out
NoSlices ==
    [heap |-> <<>>, history |-> NilSlice, got |-> NilSlice, held |-> FALSE,
     expect |-> <<>>, log |-> <<>>, appended |-> FALSE]

\* the goroutines that call CreateTenant
TenantCallers == {1, 2}

\* the database before any tenant exists; a call is not under way
NoDb ==
    [tenants |-> {}, schemas |-> {}, tables |-> {}, nextId |-> 1, made |-> 0,
     calls |-> [c \in TenantCallers |->
                   [pc |-> "idle", tenant |-> <<>>, inserted |-> FALSE,
                    err |-> <<>>]]]

\* no caller has cancelled its context, no API request, no session
NoRpc ==
    /\ ctxDone = [p \in Procs |-> FALSE]
    /\ hub = NoHub
    /\ session = NoSession

\* what cmd.Run returns when cmdCtx is already done at the start: cmd.Start
\* gives back ctx.Err() and starts nothing
RunCanceled == [kind |-> "Other", code |-> 0, text |-> <<"context canceled">>]

(***************************************************************************)
(* Operations observed on their own: GetHistory, the hub's clamp,          *)
(* loadConfig's whitelist, NewCommandExecutor's semaphore, the Agent       *)
(***************************************************************************)
\* GetHistory returning the oldest entries instead of the newest
GetHistoryOldest(h, limit) ==
    LET n == IF limit <= 0 \/ limit > Len(h) THEN Len(h) ELSE limit
    IN  SubSeq(h, 1, n)

\* GetHistory: the slice ce.history[len-limit:], all of it for a limit that
\* is not in 1..len
GetHistory(h, limit) ==
    LET n == IF limit <= 0 \/ limit > Len(h) THEN Len(h) ELSE limit
    IN  SubSeq(h, Len(h) - n + 1, Len(h))

NoQuery == [state |-> "none", limit |-> 0, at |-> 0, result |-> <<>>]

\* the hub's executeCommand handler, "Set default timeout"
HubClampTimeout(t) ==
    IF t <= 0 THEN 30
    ELSE IF t > 300 THEN 300
    ELSE t

NoClamp == [stage |-> "none", viaHub |-> FALSE, sent |-> 0, hub |-> 0, agent |-> 0]

\* an environment variable that is not set
Unset == [exists |-> FALSE, value |-> <<>>]

EnvValue(v) == [exists |-> TRUE, value |-> v]

\* no constructor under way
NoCtor == [env |-> Unset, pc |-> "none", i |-> 0]

\* the goroutines that call the Agent's command methods
AgentCallers == {1, 2, 3}

\* the methods of the Agent that create the executor on first use
AgentMethods == {"ExecuteCommand", "ValidateCommand", "GetCommandHistory"}

\* a fresh Agent: commandExecutor is nil (0), no executor built, no caller
\* inside a method
NoAgent ==
    [commandExecutor |-> 0,
     built |-> 0,
     pc |-> [c \in AgentCallers |-> "idle"],
     method |-> [c \in AgentCallers |-> "none"],
     made |-> [c \in AgentCallers |-> 0],
     used |-> [c \in AgentCallers |-> 0]]

\* none of the operations observed on their own is under way
NothingAlone ==
    /\ historyQuery = NoQuery
    /\ clamp = NoClamp
    /\ envWhitelist = Unset
    /\ ctor = NoCtor
    /\ agent = NoAgent
    /\ slices = NoSlices
    /\ db = NoDb
    /\ NoRpc

\* a name that exec.Command takes as a path: it contains a separator, so
\* filepath.Base(name) # name and no lookup in $PATH is made
HasSeparator(command) == Contains(command, <<"/">>)

\* what cmd.Run returns when the executable of command does not exist:
\* for a path, the *fs.PathError of fork/exec with ENOENT, which
\* os.IsNotExist accepts; for a bare name, the *exec.Error of the failed
\* lookup in $PATH, which os.IsNotExist does not unwrap
StartError(command) ==
    IF HasSeparator(command)
    THEN [kind |-> "NotExist", code |-> 0,
          text |-> <<"fork/exec ", command, ": no such file or directory">>]
    ELSE [kind |-> "Other", code |-> 0,
          text |-> <<"exec: ", command, ": executable file not found in $PATH">>]

\* the decimal digits and their values
DigitChars == <<"0", "1", "2", "3", "4", "5", "6", "7", "8", "9">>

IsDigit(c) == \E i \in 1..10 : DigitChars[i] = c

DigitValue(c) == (CHOOSE i \in 1..10 : DigitChars[i] = c) - 1

\* the decimal text of an integer, as the environment holds it
RECURSIVE Decimal(_)
Decimal(n) ==
    IF n < 0 THEN <<"-">> \o Decimal(0 - n)
    ELSE IF n < 10 THEN <<DigitChars[n + 1]>>
    ELSE Decimal(n \div 10) \o <<DigitChars[(n % 10) + 1]>>

\* the value of the longest run of digits at the head of s, and its length
RECURSIVE ScanDigits(_, _, _)
ScanDigits(s, value, count) ==
    IF s # <<>> /\ IsDigit(Head(s))
    THEN ScanDigits(Tail(s), value * 10 + DigitValue(Head(s)), count + 1)
    ELSE [value |-> value, count |-> count]

RECURSIVE SkipSpaces(_)
SkipSpaces(s) ==
    IF s # <<>> /\ Head(s) = " " THEN SkipSpaces(Tail(s)) ELSE s

\* fmt.Sscanf(s, "%d", &v): leading spaces are skipped, a sign is taken,
\* then the digits; what follows the number is left unread; no digit is an
\* error
Sscanf(s) ==
    LET t == SkipSpaces(s)
        signed == t # <<>> /\ Head(t) \in {"+", "-"}
        d == ScanDigits(IF signed THEN Tail(t) ELSE t, 0, 0)
    IN  IF d.count = 0
        THEN [ok |-> FALSE, value |-> 0]
        ELSE [ok |-> TRUE,
              value |-> IF signed /\ Head(t) = "-" THEN 0 - d.value ELSE d.value]

\* loadConfig, "Load max concurrent": the value of maxConcurrent after it,
\* given the value before and COMMAND_MAX_CONCURRENT
LoadMaxConcurrent(before, env) ==
    IF env.exists /\ Sscanf(env.value).ok /\ Sscanf(env.value).value > 0
    THEN Sscanf(env.value).value
    ELSE before

\* "allow_all", the sentinel of COMMAND_WHITELIST
AllowAll == <<"a", "l", "l", "o", "w", "_", "a", "l", "l">>

\* the character of s at index i, "" past its end
At(s, i) == IF i >= 1 /\ i <= Len(s) THEN s[i] ELSE ""

\* the white space of encoding/json and of strings.TrimSpace (the ASCII
\* part of the latter that a one-line variable can hold)
IsSpace(c) == c \in {" ", "\t", "\n", "\r"}

\* the first index from i on that holds no white space
RECURSIVE SkipWs(_, _)
SkipWs(s, i) == IF IsSpace(At(s, i)) THEN SkipWs(s, i + 1) ELSE i

\* the index of the quote that closes the JSON string opened before i, 0 if
\* the text ends or a control character comes first (escapes are outside
\* the texts considered: no text holds a backslash)
RECURSIVE ClosingQuote(_, _)
ClosingQuote(s, i) ==
    IF At(s, i) = "\"" THEN i
    ELSE IF At(s, i) \in {"", "\t", "\n", "\r"} THEN 0
    ELSE ClosingQuote(s, i + 1)

\* one element of the array at index i: a string, or null (which leaves the
\* element ""); any other value is a syntax error or cannot go into a string
JsonElement(s, i) ==
    IF At(s, i) = "\"" /\ ClosingQuote(s, i + 1) # 0
    THEN [ok |-> TRUE, value |-> SubSeq(s, i + 1, ClosingQuote(s, i + 1) - 1),
          next |-> ClosingQuote(s, i + 1) + 1]
    ELSE IF i + 3 <= Len(s) /\ SubSeq(s, i, i + 3) = <<"n", "u", "l", "l">>
    THEN [ok |-> TRUE, value |-> <<>>, next |-> i + 4]
    ELSE [ok |-> FALSE, value |-> <<>>, next |-> i]

\* the elements from index i on, up to the closing bracket and the end of
\* the text
RECURSIVE JsonElements(_, _, _)
JsonElements(s, i, acc) ==
    LET el == JsonElement(s, SkipWs(s, i))
        j == SkipWs(s, el.next)
    IN  IF ~el.ok THEN [ok |-> FALSE, entries |-> <<>>]
        ELSE IF At(s, j) = ","
        THEN JsonElements(s, j + 1, Append(acc, el.value))
        ELSE IF At(s, j) = "]" /\ SkipWs(s, j + 1) = Len(s) + 1
        THEN [ok |-> TRUE, entries |-> Append(acc, el.value)]
        ELSE [ok |-> FALSE, entries |-> <<>>]

\* json.Unmarshal([]byte(s), &commands) with commands a []string: ok is
\* err == nil
JsonUnmarshalStrings(s) ==
    LET i == SkipWs(s, 1)
        j == SkipWs(s, i + 1)
    IN  IF At(s, i) # "[" THEN [ok |-> FALSE, entries |-> <<>>]
        ELSE IF At(s, j) = "]"
        THEN [ok |-> SkipWs(s, j + 1) = Len(s) + 1, entries |-> <<>>]
        ELSE JsonElements(s, j, <<>>)

\* strings.Split(s, ","): the pieces between the commas, at least one
RECURSIVE SplitComma(_, _, _)
SplitComma(s, piece, acc) ==
    IF s = <<>> THEN Append(acc, piece)
    ELSE IF Head(s) = "," THEN SplitComma(Tail(s), <<>>, Append(acc, piece))
    ELSE SplitComma(Tail(s), Append(piece, Head(s)), acc)

\* strings.TrimSpace
RECURSIVE TrimSpace(_)
TrimSpace(s) ==
    IF s = <<>> THEN s
    ELSE IF IsSpace(Head(s)) THEN TrimSpace(Tail(s))
    ELSE IF IsSpace(s[Len(s)]) THEN TrimSpace(SubSeq(s, 1, Len(s) - 1))
    ELSE s

\* the zero value of the whitelist field: a nil slice
NilWhitelist == [isNil |-> TRUE, entries |-> <<>>]

\* loadConfig, "Load whitelist": the whitelist after it, given the whitelist
\* before and COMMAND_WHITELIST
LoadWhitelist(before, env) ==
    IF ~env.exists
    THEN [isNil |-> FALSE, entries |-> DefaultWhitelist]
    ELSE IF env.value = AllowAll
    THEN NilWhitelist
    ELSE IF HasPrefix(env.value, <<"[">>)
    THEN IF JsonUnmarshalStrings(env.value).ok
         THEN [isNil |-> FALSE, entries |-> JsonUnmarshalStrings(env.value).entries]
         ELSE before
    ELSE LET pieces == SplitComma(env.value, <<>>, <<>>)
         IN  [isNil |-> FALSE,
              entries |-> [i \in 1..Len(pieces) |-> TrimSpace(pieces[i])]]

(***************************************************************************)
(* Initial conditions shared by the specifications                         *)
(***************************************************************************)
\* the configuration loadConfig leaves when no variable is set
DefaultConfig ==
    /\ whitelist = [isNil |-> FALSE, entries |-> DefaultWhitelist]
    /\ allowedPaths = DefaultAllowedPaths
    /\ maxOutputSize = DefaultMaxOutputSize

\* no ValidateCommand call under observation
NoValidate ==
    /\ vCommand = <<>>
    /\ vState = "none"
    /\ vErr = NilError

\* no child output under observation
NoWriter ==
    /\ lw = [s \in Streams |-> NewLimitedWriter(0)]
    /\ lwRet = [s \in Streams |-> [n |-> 0, len |-> 0]]
    /\ childOut = [s \in Streams |-> <<>>]

\* NewCommandExecutor: history: make([]CommandHistoryEntry, 0, 100)
NoHistory ==
    /\ history = <<>>
    /\ appendLog = <<>>

\* an empty tracker and no call under way
NoCalls ==
    /\ rateLimitTracker = [k \in ClientKeys |-> <<>>]
    /\ now = 0
    /\ pc = [p \in Procs |-> "idle"]
    /\ req = [p \in Procs |-> NoRequest]
    /\ clientKey = [p \in Procs |-> "default"]
    /\ startTime = [p \in Procs |-> 0]
    /\ validationErr = [p \in Procs |-> NilError]
    /\ deadline = [p \in Procs |-> 0]
    /\ child = [p \in Procs |-> NoChild]
    /\ resp = [p \in Procs |-> NoResponse]
    /\ nCalls = 0
    /\ spawned = [p \in Procs |-> 0]
    /\ appended = [p \in Procs |-> 0]
    /\ acquired = [p \in Procs |-> FALSE]
    /\ rlLog = [k \in ClientKeys |-> <<>>]

\* NewCommandExecutor with n slots: an empty tracker, the semaphore filled
\* with n slots, and no call under way
NewExecutor(n, limit) ==
    /\ maxConcurrent = n
    /\ rateLimit = limit
    /\ sem = n
    /\ NoCalls

\* the executor with its defaults and no call made
IdleExecutor == NewExecutor(DefaultMaxConcurrent, DefaultRateLimit)

(***************************************************************************)
(* ValidateCommand applied to one command under one configuration          *)
(***************************************************************************)
InitValidate ==
    /\ whitelist \in WhitelistConfigs
    /\ allowedPaths \in AllowedPathsConfigs
    /\ maxOutputSize = DefaultMaxOutputSize
    /\ vCommand \in CommandsUpTo(MaxAtoms)
    /\ vState = "input"
    /\ vErr = NilError
    /\ NoWriter
    /\ NoHistory
    /\ IdleExecutor
    /\ NothingAlone

DoValidate ==
    /\ vState = "input"
    /\ vErr' = ValidateCommand(whitelist, allowedPaths, vCommand)
    /\ vState' = "checked"
    /\ UNCHANGED <<cfgVars, vCommand, writerVars, historyVars, execVars>>

NextValidate == DoValidate

SpecValidate == InitValidate /\ [][NextValidate]_vars

(***************************************************************************)
(* The two limitedWriters of one execution, fed by the child               *)
(***************************************************************************)
InitWriter ==
    /\ whitelist = [isNil |-> FALSE, entries |-> DefaultWhitelist]
    /\ allowedPaths = DefaultAllowedPaths
    /\ maxOutputSize \in 0..MaxOut
    /\ NoValidate
    /\ lw = [s \in Streams |-> NewLimitedWriter(maxOutputSize)]
    /\ lwRet = [s \in Streams |-> [n |-> 0, len |-> 0]]
    /\ childOut = [s \in Streams |-> <<>>]
    /\ NoHistory
    /\ IdleExecutor
    /\ NothingAlone

\* the child writes chunk p to stream s (one Write call of the copy loop)
Write(s, p) ==
    /\ Len(childOut[s]) + Len(p) <= MaxWritten
    /\ LET r == LimitedWrite(lw[s], p)
       IN  /\ lw' = [lw EXCEPT ![s] = r.w]
           /\ lwRet' = [lwRet EXCEPT ![s] = [n |-> r.n, len |-> Len(p)]]
    /\ childOut' = [childOut EXCEPT ![s] = @ \o p]
    /\ UNCHANGED <<cfgVars, validateVars, historyVars, execVars>>

NextWriter ==
    \E s \in Streams, n \in 0..MaxChunk : Write(s, ChildBytes(Len(childOut[s]), n))

SpecWriter == InitWriter /\ [][NextWriter]_vars

(***************************************************************************)
(* The history ring over a long run of executions                          *)
(***************************************************************************)
InitHistory ==
    /\ DefaultConfig
    /\ NoValidate
    /\ NoWriter
    /\ NoHistory
    /\ IdleExecutor
    /\ NothingAlone

\* one execution reaches "Add to history"
RecordExecution ==
    /\ Len(appendLog) < MaxAppends
    /\ LET entry == HistoryEntryOf(Len(appendLog) + 1)
       IN  /\ history' = AddToHistory(history, entry)
           /\ appendLog' = Append(appendLog, entry)
    /\ UNCHANGED <<cfgVars, validateVars, writerVars, execVars>>

NextHistory == RecordExecution

SpecHistory == InitHistory /\ [][NextHistory]_vars

(***************************************************************************)
(* checkRateLimit over a run of validated requests                         *)
(***************************************************************************)
InitRate ==
    /\ DefaultConfig
    /\ NoValidate
    /\ NoWriter
    /\ NoHistory
    /\ \E limit \in 1..MaxRate : NewExecutor(DefaultMaxConcurrent, limit)
    /\ NothingAlone

\* ExecuteCommand, lines 344-350, for a request of client k that passed
\* validation: checkRateLimit, and the response when it refuses
RateCheck(k) ==
    /\ Len(rlLog["default"]) + Len(rlLog["test"]) < MaxChecks
    /\ LET r == CheckRateLimit(rateLimitTracker, k, now, rateLimit)
       IN  /\ rateLimitTracker' = r.tracker
           /\ rlLog' = [rlLog EXCEPT ![k] =
                  Append(@, [t |-> now, ok |-> ~Rejected(r.err),
                             resp |-> IF Rejected(r.err)
                                      THEN RateLimitedResponse(r.err)
                                      ELSE NoResponse])]
    /\ UNCHANGED <<cfgVars, validateVars, writerVars, historyVars, execCfgVars,
                   sem, now, callVars, nCalls, spawned, appended, acquired>>

\* time passes
TickRate ==
    /\ now + RateTickStep <= MaxRateTicks * RateTickStep
    /\ now' = now + RateTickStep
    /\ UNCHANGED <<cfgVars, validateVars, writerVars, historyVars, execCfgVars,
                   sem, rateLimitTracker, callVars, ghostVars>>

NextRate ==
    \/ \E k \in ClientKeys : RateCheck(k)
    \/ TickRate

SpecRate == InitRate /\ [][NextRate]_vars

(***************************************************************************)
(* Concurrent ExecuteCommand calls on one executor, made through           *)
(* Agent.ExecuteCommand (client key "default")                             *)
(***************************************************************************)
Init ==
    /\ DefaultConfig
    /\ NoValidate
    /\ NoWriter
    /\ NoHistory
    /\ \E n \in SlotConfigs, limit \in RateLimitConfigs : NewExecutor(n, limit)
    /\ NothingAlone

\* a caller may call when it has no call under way
CanCall(p) ==
    /\ pc[p] \in {"idle", "done"}
    /\ nCalls < MaxCalls

\* the per-call state at the entry of ExecuteCommand: startTime := time.Now()
\* and the timeout clamp (lines 326-334)
EnterCall(p, r) ==
    /\ nCalls' = nCalls + 1
    /\ req' = [req EXCEPT ![p] = [r EXCEPT !.Timeout = ClampTimeout(r.Timeout)]]
    /\ clientKey' = [clientKey EXCEPT ![p] = "default"]
    /\ startTime' = [startTime EXCEPT ![p] = now]
    /\ deadline' = [deadline EXCEPT ![p] = 0]
    /\ child' = [child EXCEPT ![p] = NoChild]
    /\ spawned' = [spawned EXCEPT ![p] = 0]
    /\ appended' = [appended EXCEPT ![p] = 0]
    /\ acquired' = [acquired EXCEPT ![p] = FALSE]

\* the refusal of a call whose rate-limit check ran before its validation
CallRefusedAfterRateCheck(p, r) ==
    /\ CanCall(p)
    /\ Rejected(ValidateCommand(whitelist, allowedPaths, r.Command))
    /\ EnterCall(p, r)
    /\ validationErr' = [validationErr EXCEPT ![p] =
                            ValidateCommand(whitelist, allowedPaths, r.Command)]
    /\ resp' = [resp EXCEPT ![p] = ValidationFailed(validationErr'[p])]
    /\ pc' = [pc EXCEPT ![p] = "done"]
    /\ rateLimitTracker' = CheckRateLimit(rateLimitTracker, "default", now, rateLimit).tracker
    /\ UNCHANGED <<cfgVars, validateVars, writerVars, historyVars, execCfgVars,
                   sem, now, rlLog>>

\* the refusal of a call whose validation scans the arguments as well
CallRefusedOnArgs(p, r) ==
    /\ CanCall(p)
    /\ \/ Rejected(ValidateCommand(whitelist, allowedPaths, r.Command))
       \/ \E i \in 1..Len(r.Args) :
              FirstContained(Blacklist \o InjectionPatterns, r.Args[i]) # 0
    /\ EnterCall(p, r)
    /\ validationErr' = [validationErr EXCEPT ![p] =
                            IF Rejected(ValidateCommand(whitelist, allowedPaths, r.Command))
                            THEN ValidateCommand(whitelist, allowedPaths, r.Command)
                            ELSE <<"command contains dangerous pattern: ", <<>>>>]
    /\ resp' = [resp EXCEPT ![p] = ValidationFailed(validationErr'[p])]
    /\ pc' = [pc EXCEPT ![p] = "done"]
    /\ UNCHANGED <<cfgVars, validateVars, writerVars, historyVars, execCfgVars,
                   sharedVars, rlLog>>

\* lines 326-342: ValidateCommand refuses the command
\* (validation reads only the immutable configuration)
CallRefused(p, r) ==
    /\ CanCall(p)
    /\ Rejected(ValidateCommand(whitelist, allowedPaths, r.Command))
    /\ EnterCall(p, r)
    /\ validationErr' = [validationErr EXCEPT ![p] =
                            ValidateCommand(whitelist, allowedPaths, r.Command)]
    /\ resp' = [resp EXCEPT ![p] = ValidationFailed(validationErr'[p])]
    /\ pc' = [pc EXCEPT ![p] = "done"]
    /\ UNCHANGED <<cfgVars, validateVars, writerVars, historyVars, execCfgVars,
                   sharedVars, rlLog>>

\* lines 326-342: ValidateCommand accepts the command
CallValidated(p, r) ==
    /\ CanCall(p)
    /\ ~Rejected(ValidateCommand(whitelist, allowedPaths, r.Command))
    /\ EnterCall(p, r)
    /\ validationErr' = [validationErr EXCEPT ![p] = NilError]
    /\ resp' = [resp EXCEPT ![p] = NoResponse]
    /\ pc' = [pc EXCEPT ![p] = "ratelimit"]
    /\ UNCHANGED <<cfgVars, validateVars, writerVars, historyVars, execCfgVars,
                   sharedVars, rlLog>>

\* lines 344-350: checkRateLimit under rateLimitMutex
RateLimited(p) ==
    /\ pc[p] = "ratelimit"
    /\ LET r == CheckRateLimit(rateLimitTracker, clientKey[p], now, rateLimit)
       IN  /\ Rejected(r.err)
           /\ rateLimitTracker' = r.tracker
           /\ resp' = [resp EXCEPT ![p] = RateLimitedResponse(r.err)]
    /\ pc' = [pc EXCEPT ![p] = "done"]
    /\ UNCHANGED <<cfgVars, validateVars, writerVars, historyVars, execCfgVars,
                   sem, now, req, clientKey, startTime, validationErr, deadline, child,
                   ghostVars>>

RateAdmitted(p) ==
    /\ pc[p] = "ratelimit"
    /\ LET r == CheckRateLimit(rateLimitTracker, clientKey[p], now, rateLimit)
       IN  /\ ~Rejected(r.err)
           /\ rateLimitTracker' = r.tracker
    /\ pc' = [pc EXCEPT ![p] = "acquire"]
    /\ UNCHANGED <<cfgVars, validateVars, writerVars, historyVars, execCfgVars,
                   sem, now, req, clientKey, startTime, validationErr, deadline, child, resp,
                   ghostVars>>

\* lines 352-361: the non-blocking select takes a slot
AcquireSlot(p) ==
    /\ pc[p] = "acquire"
    /\ TryAcquire(sem).ok
    /\ sem' = TryAcquire(sem).sem
    /\ acquired' = [acquired EXCEPT ![p] = TRUE]
    /\ pc' = [pc EXCEPT ![p] = "start"]
    /\ UNCHANGED <<cfgVars, validateVars, writerVars, historyVars, execCfgVars,
                   rateLimitTracker, now, req, clientKey, startTime, validationErr, deadline,
                   child, resp, nCalls, spawned, appended, rlLog>>

\* the acquisition that waits for a slot: with none left the call stays at
\* the select
SlotsExhaustedWaits(p) ==
    /\ pc[p] = "acquire"
    /\ TryAcquire(sem).ok
    /\ ~TryAcquire(sem).ok
    /\ UNCHANGED vars

\* the return for the concurrency limit of an executor that records the
\* timestamp only once a slot is taken
SlotsExhaustedForgets(p) ==
    /\ pc[p] = "acquire"
    /\ ~TryAcquire(sem).ok
    /\ rateLimitTracker' =
           [rateLimitTracker EXCEPT ![clientKey[p]] =
                SelectSeq(@, LAMBDA ts : ts # startTime[p])]
    /\ resp' = [resp EXCEPT ![p] = SlotsExhaustedResponse]
    /\ pc' = [pc EXCEPT ![p] = "done"]
    /\ UNCHANGED <<cfgVars, validateVars, writerVars, historyVars, execCfgVars,
                   sem, now, req, clientKey, startTime, validationErr, deadline, child,
                   ghostVars>>

\* lines 352-361: the select falls to its default branch
SlotsExhausted(p) ==
    /\ pc[p] = "acquire"
    /\ ~TryAcquire(sem).ok
    /\ resp' = [resp EXCEPT ![p] = SlotsExhaustedResponse]
    /\ pc' = [pc EXCEPT ![p] = "done"]
    /\ UNCHANGED <<cfgVars, validateVars, writerVars, historyVars, execCfgVars,
                   sharedVars, req, clientKey, startTime, validationErr, deadline, child,
                   ghostVars>>

\* the return on an invalid environment variable that keeps the slot
EnvRejectedKeepsSlot(p) ==
    /\ pc[p] = "start"
    /\ EnvInvalid(req[p].Env)
    /\ resp' = [resp EXCEPT ![p] = EnvRejectedResponse]
    /\ pc' = [pc EXCEPT ![p] = "done"]
    /\ UNCHANGED <<cfgVars, validateVars, writerVars, historyVars, execCfgVars,
                   sharedVars, req, clientKey, startTime, validationErr, deadline,
                   child, ghostVars>>

\* lines 375-389: an invalid environment variable; the return runs the
\* deferred release of the slot
EnvRejected(p) ==
    /\ pc[p] = "start"
    /\ EnvInvalid(req[p].Env)
    /\ sem < SemaphoreCap
    /\ sem' = sem + 1
    /\ resp' = [resp EXCEPT ![p] = EnvRejectedResponse]
    /\ pc' = [pc EXCEPT ![p] = "done"]
    /\ UNCHANGED <<cfgVars, validateVars, writerVars, historyVars, execCfgVars,
                   rateLimitTracker, now, req, clientKey, startTime, validationErr, deadline,
                   child, ghostVars>>

\* lines 363-408: cmdCtx gets its deadline and cmd.Run starts the child
StartChild(p) ==
    /\ pc[p] = "start"
    /\ ~EnvInvalid(req[p].Env)
    /\ deadline' = [deadline EXCEPT ![p] = now + req[p].Timeout]
    /\ child' = [child EXCEPT ![p] = RunningChild]
    /\ spawned' = [spawned EXCEPT ![p] = @ + 1]
    /\ pc' = [pc EXCEPT ![p] = "running"]
    /\ UNCHANGED <<cfgVars, validateVars, writerVars, historyVars, execCfgVars,
                   sharedVars, req, clientKey, startTime, validationErr, resp, nCalls,
                   appended, acquired, rlLog>>

\* lines 408-439: cmd.Run fails to start the child (the executable is
\* missing, or any other error) and the response is built
StartFails(p, err) ==
    /\ pc[p] = "start"
    /\ ~EnvInvalid(req[p].Env)
    /\ deadline' = [deadline EXCEPT ![p] = now + req[p].Timeout]
    /\ resp' = [resp EXCEPT ![p] =
                   BuildResponse(err, FALSE, (now - startTime[p]) * 1000)]
    /\ pc' = [pc EXCEPT ![p] = "history"]
    /\ UNCHANGED <<cfgVars, validateVars, writerVars, historyVars, execCfgVars,
                   sharedVars, req, clientKey, startTime, validationErr, child, ghostVars>>

\* the child ends by itself before the deadline of cmdCtx
ChildExits(p, status) ==
    /\ pc[p] = "running"
    /\ child[p].state = "running"
    /\ now < deadline[p]
    /\ child' = [child EXCEPT ![p] = [state |-> "exited", status |-> status]]
    /\ UNCHANGED <<cfgVars, validateVars, writerVars, historyVars, execCfgVars,
                   sharedVars, pc, req, clientKey, startTime, validationErr, deadline, resp,
                   ghostVars>>

\* exec.CommandContext: the deadline of cmdCtx passed with the child still
\* running, and the child is killed
KillChild(p) ==
    /\ pc[p] = "running"
    /\ child[p].state = "running"
    /\ now >= deadline[p]
    /\ child' = [child EXCEPT ![p] = [state |-> "killed", status |-> -1]]
    /\ UNCHANGED <<cfgVars, validateVars, writerVars, historyVars, execCfgVars,
                   sharedVars, pc, req, clientKey, startTime, validationErr, deadline, resp,
                   ghostVars>>

\* lines 408-439: cmd.Run returns after the child ended; duration is taken
\* and the response is built, reading cmdCtx.Err() at this moment
RunReturns(p) ==
    /\ pc[p] = "running"
    /\ child[p].state \in {"exited", "killed"}
    /\ resp' = [resp EXCEPT ![p] =
                   BuildResponse(WaitResult(child[p]), now >= deadline[p],
                                 (now - startTime[p]) * 1000)]
    /\ pc' = [pc EXCEPT ![p] = "history"]
    /\ UNCHANGED <<cfgVars, validateVars, writerVars, historyVars, execCfgVars,
                   sharedVars, req, clientKey, startTime, validationErr, deadline, child,
                   ghostVars>>

\* lines 450-458: addToHistory under historyMutex
AddHistory(p) ==
    /\ pc[p] = "history"
    /\ LET entry == HistoryEntry(req[p].Command, startTime[p],
                                 resp[p].Duration, resp[p].ExitCode)
       IN  /\ history' = AddToHistory(history, entry)
           /\ appendLog' = Append(appendLog, entry)
    /\ appended' = [appended EXCEPT ![p] = @ + 1]
    /\ pc' = [pc EXCEPT ![p] = "return"]
    /\ UNCHANGED <<cfgVars, validateVars, writerVars, execCfgVars, sharedVars,
                   req, clientKey, startTime, validationErr, deadline, child, resp, nCalls,
                   spawned, acquired, rlLog>>

\* line 460: return response; the deferred calls cancel cmdCtx and give the
\* slot back
Return(p) ==
    /\ pc[p] = "return"
    /\ sem < SemaphoreCap
    /\ sem' = sem + 1
    /\ deadline' = [deadline EXCEPT ![p] = 0]
    /\ pc' = [pc EXCEPT ![p] = "done"]
    /\ UNCHANGED <<cfgVars, validateVars, writerVars, historyVars, execCfgVars,
                   rateLimitTracker, now, req, clientKey, startTime, validationErr,
                   child, resp, ghostVars>>

\* time passes
Tick ==
    /\ now + TickStep <= MaxTicks * TickStep
    /\ now' = now + TickStep
    /\ UNCHANGED <<cfgVars, validateVars, writerVars, historyVars, execCfgVars,
                   sem, rateLimitTracker, callVars, ghostVars>>

Next ==
    \/ \E p \in Procs, r \in Requests : CallRefused(p, r)
    \/ \E p \in Procs, r \in Requests : CallValidated(p, r)
    \/ \E p \in Procs : RateLimited(p)
    \/ \E p \in Procs : RateAdmitted(p)
    \/ \E p \in Procs : AcquireSlot(p)
    \/ \E p \in Procs : SlotsExhausted(p)
    \/ \E p \in Procs : EnvRejected(p)
    \/ \E p \in Procs : StartChild(p)
    \/ \E p \in Procs, err \in {RunNotExist, RunOther} : StartFails(p, err)
    \/ \E p \in Procs, status \in ExitStatuses : ChildExits(p, status)
    \/ \E p \in Procs : KillChild(p)
    \/ \E p \in Procs : RunReturns(p)
    \/ \E p \in Procs : AddHistory(p)
    \/ \E p \in Procs : Return(p)
    \/ Tick

Spec == Init /\ [][Next]_vars

\* the runtime schedules every goroutine that can run: the kill at the
\* deadline, the return of cmd.Run and the rest of the call do happen
Fairness ==
    \A p \in Procs :
        /\ WF_vars(KillChild(p))
        /\ WF_vars(RunReturns(p))
        /\ WF_vars(AddHistory(p))
        /\ WF_vars(Return(p))

SpecLive == Spec /\ Fairness

(***************************************************************************)
(* GetHistory called between the appends of a long run of executions       *)
(***************************************************************************)
\* the limits a caller passes to GetHistory
QueryLimits == {-1, 0, 1, 2, 10, 99, 100, 101}

InitGetHistory ==
    /\ DefaultConfig
    /\ NoValidate
    /\ NoWriter
    /\ NoHistory
    /\ IdleExecutor
    /\ NothingAlone

\* one GetHistory(limit) call, under historyMutex; "at" is the number of
\* entries appended so far
QueryHistory(limit) ==
    /\ historyQuery' = [state |-> "returned", limit |-> limit,
                        at |-> Len(appendLog),
                        result |-> GetHistory(history, limit)]
    /\ UNCHANGED <<whitelist, allowedPaths, maxOutputSize, rpcVars, clamp, envWhitelist,
                   ctor, agent, slices, db, validateVars, writerVars, historyVars, execVars>>

NextGetHistory ==
    \/ RecordExecution
    \/ \E limit \in QueryLimits : QueryHistory(limit)

SpecGetHistory == InitGetHistory /\ [][NextGetHistory]_vars

(***************************************************************************)
(* One timeout on its way from the request to the child: through the hub's *)
(* handler and the agent, or to the agent's executor directly              *)
(***************************************************************************)
\* how far beyond the two limits the timeouts sent reach
MaxBeyond == 3

\* the timeouts a request carries: everything around and between the
\* limits, and the ends of the 32-bit range
TimeoutsSent ==
    ((0 - MaxBeyond)..(MaxTimeout + MaxBeyond)) \cup {-2147483647, 2147483647}

InitClamp ==
    /\ DefaultConfig
    /\ NoValidate
    /\ NoWriter
    /\ NoHistory
    /\ IdleExecutor
    /\ historyQuery = NoQuery
    /\ \E t \in TimeoutsSent :
           clamp = [stage |-> "sent", viaHub |-> FALSE, sent |-> t, hub |-> 0,
                    agent |-> 0]
    /\ envWhitelist = Unset
    /\ ctor = NoCtor
    /\ agent = NoAgent
    /\ slices = NoSlices
    /\ db = NoDb
    /\ NoRpc

\* the hub's executeCommand handler clamps the timeout before dispatch
HubReceives ==
    /\ clamp.stage = "sent"
    /\ clamp' = [clamp EXCEPT !.stage = "hub", !.viaHub = TRUE,
                              !.hub = HubClampTimeout(clamp.sent)]
    /\ UNCHANGED <<whitelist, allowedPaths, maxOutputSize, rpcVars, historyQuery,
                   envWhitelist, ctor, agent, slices, db, validateVars, writerVars,
                   historyVars, execVars>>

\* ExecuteCommand, lines 328-334, on what it received: the hub's value, or
\* the request's own when the executor is called directly
AgentReceives ==
    /\ clamp.stage \in {"sent", "hub"}
    /\ clamp' = [clamp EXCEPT !.stage = "agent",
                              !.agent = ClampTimeout(IF clamp.viaHub
                                                     THEN clamp.hub
                                                     ELSE clamp.sent)]
    /\ UNCHANGED <<whitelist, allowedPaths, maxOutputSize, rpcVars, historyQuery,
                   envWhitelist, ctor, agent, slices, db, validateVars, writerVars,
                   historyVars, execVars>>

NextClamp ==
    \/ HubReceives
    \/ AgentReceives

SpecClamp == InitClamp /\ [][NextClamp]_vars

(***************************************************************************)
(* The first call of each caller on a fresh executor, with arguments, on a *)
(* host where the executable of a command may be missing; every child ends *)
(* by itself before its deadline                                           *)
(***************************************************************************)
\* "/bin/echo hello": a whitelist entry, a space and more text
EchoHelloCommand == EchoCommand \o <<" ", "h", "e", "l", "l", "o">>

\* a bare name, looked up in $PATH
BareCommand == <<"n", "o", "s", "u", "c", "h">>

\* "/bin/ls; rm -rf /"
LsRmCommand ==
    <<"/", "b", "i", "n", "/", "l", "s", ";", " ", "r", "m", " ", "-", "r", "f", " ", "/">>

\* req.Args: none, a harmless one, one with an injection character and a
\* blacklist substring
ArgLists ==
    { <<>>,
      << <<"t", "e", "s", "t">> >>,
      << <<";", " ", "r", "m", " ", "-", "r", "f", " ", "/">> >> }

ArgRequests ==
    { [Command |-> c, Args |-> a, Timeout |-> 10, Env |-> {}] :
          c \in {EchoCommand, EchoHelloCommand, BareCommand, LsRmCommand},
          a \in ArgLists }

InitFirstCalls ==
    /\ whitelist \in { [isNil |-> FALSE, entries |-> DefaultWhitelist],
                       [isNil |-> TRUE, entries |-> <<>>] }
    /\ allowedPaths = DefaultAllowedPaths
    /\ maxOutputSize = DefaultMaxOutputSize
    /\ NoValidate
    /\ NoWriter
    /\ NoHistory
    /\ IdleExecutor
    /\ NothingAlone

\* lines 408-439: cmd.Run fails because the executable does not exist
StartMissing(p) == StartFails(p, StartError(req[p].Command))

NextFirstCalls ==
    \/ \E p \in Procs, r \in ArgRequests : pc[p] = "idle" /\ CallRefused(p, r)
    \/ \E p \in Procs, r \in ArgRequests : pc[p] = "idle" /\ CallValidated(p, r)
    \/ \E p \in Procs : RateAdmitted(p)
    \/ \E p \in Procs : AcquireSlot(p)
    \/ \E p \in Procs : StartChild(p)
    \/ \E p \in Procs : StartMissing(p)
    \/ \E p \in Procs, status \in ExitStatuses : ChildExits(p, status)
    \/ \E p \in Procs : RunReturns(p)
    \/ \E p \in Procs : AddHistory(p)
    \/ \E p \in Procs : Return(p)

SpecFirstCalls == InitFirstCalls /\ [][NextFirstCalls]_vars

(***************************************************************************)
(* NewCommandExecutor under one value of COMMAND_WHITELIST and of           *)
(* COMMAND_MAX_CONCURRENT, and ValidateCommand on what it returns          *)
(***************************************************************************)
\* the largest number of slots configured
MaxConfigured == 12

\* COMMAND_MAX_CONCURRENT: not set, a number, or text that is no number
MaxConcurrentValues ==
    {Unset}
    \cup {EnvValue(Decimal(n)) : n \in -1..MaxConfigured}
    \cup {EnvValue(<<>>), EnvValue(<<"a", "l", "l">>), EnvValue(<<" ", "7", "x">>)}

\* COMMAND_WHITELIST: not set, the sentinel, JSON arrays, texts that open
\* with a bracket and are no JSON array of strings, comma-separated lists
WhitelistValues ==
    { Unset,
      EnvValue(AllowAll),
      EnvValue(<<"[", "\"", "/", "b", "i", "n", "/", "l", "s", "\"", "]">>),
      EnvValue(<<"[", "\"", "/", "b", "i", "n", "/", "l", "s", "\"", ",", " ", "\"", "/", "b", "i", "n", "/", "c", "a", "t", "\"", "]">>),
      EnvValue(<<"[", "]">>),
      EnvValue(<<"[", "n", "u", "l", "l", "]">>),
      EnvValue(<<"[", "/", "b", "i", "n", "/", "l", "s", "]">>),
      EnvValue(<<"[", "\"", "/", "b", "i", "n", "/", "l", "s", "\"">>),
      EnvValue(<<"[", "1", "]">>),
      EnvValue(<<"/", "b", "i", "n", "/", "l", "s", ",", " ", "/", "b", "i", "n", "/", "c", "a", "t">>),
      EnvValue(<<>>),
      EnvValue(<<"A", "L", "L", "O", "W", "_", "A", "L", "L">>) }

\* "/bin/ls", "/bin/cat", and "/bin/sh", which no whitelist considered holds
LsCommand == <<"/", "b", "i", "n", "/", "l", "s">>

CatCommand == <<"/", "b", "i", "n", "/", "c", "a", "t">>

ShCommand == <<"/", "b", "i", "n", "/", "s", "h">>

\* the commands validated on the new executor
NewExecutorCommands == {LsCommand, CatCommand, ShCommand, EchoCommand, RmCommand}

\* the struct literal of NewCommandExecutor: the defaults, and an empty
\* semaphore channel of capacity 5
InitNew ==
    /\ whitelist = NilWhitelist
    /\ allowedPaths = DefaultAllowedPaths
    /\ maxOutputSize = DefaultMaxOutputSize
    /\ NoValidate
    /\ NoWriter
    /\ NoHistory
    /\ maxConcurrent = DefaultMaxConcurrent
    /\ rateLimit = DefaultRateLimit
    /\ sem = 0
    /\ NoCalls
    /\ historyQuery = NoQuery
    /\ clamp = NoClamp
    /\ envWhitelist \in WhitelistValues
    /\ \E v \in MaxConcurrentValues : ctor = [env |-> v, pc |-> "loadConfig", i |-> 0]
    /\ agent = NoAgent
    /\ slices = NoSlices
    /\ db = NoDb
    /\ NoRpc

\* executor.loadConfig(): the whitelist and maxConcurrent (the other
\* variables are not set and leave the defaults)
CtorLoadConfig ==
    /\ ctor.pc = "loadConfig"
    /\ whitelist' = LoadWhitelist(whitelist, envWhitelist)
    /\ maxConcurrent' = LoadMaxConcurrent(maxConcurrent, ctor.env)
    /\ ctor' = [ctor EXCEPT !.pc = "fill"]
    /\ UNCHANGED <<allowedPaths, maxOutputSize, rpcVars, historyQuery, clamp,
                   envWhitelist, agent, slices, db, validateVars, writerVars, historyVars,
                   rateLimit, sharedVars, callVars, ghostVars>>

\* one turn of the loop "Fill semaphore with available slots": the send on
\* the channel goes through only while the channel is not full
CtorFillSlot ==
    /\ ctor.pc = "fill"
    /\ ctor.i < maxConcurrent
    /\ sem < SemaphoreCap
    /\ sem' = sem + 1
    /\ ctor' = [ctor EXCEPT !.i = @ + 1]
    /\ UNCHANGED <<whitelist, allowedPaths, maxOutputSize, rpcVars, historyQuery, clamp,
                   envWhitelist, agent, slices, db, validateVars, writerVars, historyVars,
                   execCfgVars, rateLimitTracker, now, callVars, ghostVars>>

\* the loop ends and the constructor returns the executor
CtorReturn ==
    /\ ctor.pc = "fill"
    /\ ctor.i >= maxConcurrent
    /\ ctor' = [ctor EXCEPT !.pc = "returned"]
    /\ UNCHANGED <<whitelist, allowedPaths, maxOutputSize, rpcVars, historyQuery, clamp,
                   envWhitelist, agent, slices, db, validateVars, writerVars, historyVars,
                   execVars>>

\* ValidateCommand(c) on the executor the constructor returned
ValidateOnNew(c) ==
    /\ ctor.pc = "returned"
    /\ vState = "none"
    /\ vCommand' = c
    /\ vErr' = ValidateCommand(whitelist, allowedPaths, c)
    /\ vState' = "checked"
    /\ UNCHANGED <<cfgVars, writerVars, historyVars, execVars>>

NextNew ==
    \/ CtorLoadConfig
    \/ CtorFillSlot
    \/ CtorReturn
    \/ \E c \in NewExecutorCommands : ValidateOnNew(c)

SpecNew == InitNew /\ [][NextNew]_vars

(***************************************************************************)
(* The first calls of concurrent handlers on one Agent: which executor     *)
(* each call lands on.  Executors are numbered in the order they are       *)
(* built; 0 is the nil pointer.                                            *)
(***************************************************************************)
InitAgent ==
    /\ DefaultConfig
    /\ NoValidate
    /\ NoWriter
    /\ NoHistory
    /\ IdleExecutor
    /\ NothingAlone

\* what no step of the Agent's methods touches here
AgentUnchanged ==
    UNCHANGED <<whitelist, allowedPaths, maxOutputSize, rpcVars, historyQuery, clamp,
                envWhitelist, ctor, slices, db, validateVars, writerVars, historyVars,
                execVars>>

\* a handler enters one of the methods
AgentEnter(c, m) ==
    /\ agent.pc[c] = "idle"
    /\ agent' = [agent EXCEPT !.pc[c] = "check", !.method[c] = m]
    /\ AgentUnchanged

\* "if a.commandExecutor == nil" finds nil: ExecuteCommand and
\* ValidateCommand go on to build an executor, GetCommandHistory returns an
\* empty list
AgentSeesNil(c) ==
    /\ agent.pc[c] = "check"
    /\ agent.commandExecutor = 0
    /\ agent' = [agent EXCEPT !.pc[c] = IF agent.method[c] = "GetCommandHistory"
                                        THEN "done"
                                        ELSE "construct"]
    /\ AgentUnchanged

\* "if a.commandExecutor == nil" finds an executor
AgentSeesExecutor(c) ==
    /\ agent.pc[c] = "check"
    /\ agent.commandExecutor # 0
    /\ agent' = [agent EXCEPT !.pc[c] = "use"]
    /\ AgentUnchanged

\* NewCommandExecutor() returns a new executor (the environment leaves the
\* defaults, so the constructor does return)
AgentConstructs(c) ==
    /\ agent.pc[c] = "construct"
    /\ agent' = [agent EXCEPT !.built = @ + 1, !.made[c] = agent.built + 1,
                              !.pc[c] = "assign"]
    /\ AgentUnchanged

\* a.commandExecutor = <the new executor>
AgentAssigns(c) ==
    /\ agent.pc[c] = "assign"
    /\ agent' = [agent EXCEPT !.commandExecutor = agent.made[c], !.pc[c] = "use"]
    /\ AgentUnchanged

\* a.commandExecutor.ExecuteCommand / ValidateCommand / GetHistory: the
\* field is read again and the call goes to the executor it holds now
AgentUses(c) ==
    /\ agent.pc[c] = "use"
    /\ agent' = [agent EXCEPT !.used[c] = agent.commandExecutor, !.pc[c] = "done"]
    /\ AgentUnchanged

NextAgent ==
    \/ \E c \in AgentCallers, m \in AgentMethods : AgentEnter(c, m)
    \/ \E c \in AgentCallers : AgentSeesNil(c)
    \/ \E c \in AgentCallers : AgentSeesExecutor(c)
    \/ \E c \in AgentCallers : AgentConstructs(c)
    \/ \E c \in AgentCallers : AgentAssigns(c)
    \/ \E c \in AgentCallers : AgentUses(c)

SpecAgent == InitAgent /\ [][NextAgent]_vars

(***************************************************************************)
(* The claims                                                              *)
(***************************************************************************)
\* C1: ValidateCommand rejects every command that contains a blacklist
\* substring or an injection pattern, under every whitelist configuration
\* (allow_all included) and every allowed_paths configuration.
C1_DangerousRejected ==
    (/\ vState = "checked"
     /\ \E pat \in DangerAtoms : Contains(vCommand, pat))
    => Rejected(vErr)

\* a tab inside an otherwise acceptable command was checked under allow_all
C1_Witness ==
    /\ vState = "checked"
    /\ whitelist.isNil
    /\ vCommand = <<"l", "s", "\t">>
    /\ Rejected(vErr)

\* C8: with a whitelist that is not allow-all, an accepted command equals a
\* whitelist entry or begins with a whitelist entry followed by a space.
C8_AcceptedIsWhitelisted ==
    (/\ vState = "checked"
     /\ ~whitelist.isNil
     /\ ~Rejected(vErr))
    => \E i \in 1..Len(whitelist.entries) :
           \/ vCommand = whitelist.entries[i]
           \/ /\ Len(vCommand) > Len(whitelist.entries[i])
              /\ SubSeq(vCommand, 1, Len(whitelist.entries[i]) + 1)
                     = Append(whitelist.entries[i], " ")

\* the compound form was accepted: an entry, a space, nothing else
C8_Witness ==
    /\ vState = "checked"
    /\ ~whitelist.isNil
    /\ vCommand = <<"/", "b", "i", "n", "/", "c", "a", "t", " ">>
    /\ ~Rejected(vErr)

\* C6: whatever the split into Write calls, the captured string of a stream
\* is exactly the first min(k, max_output) of the k bytes the child wrote to
\* it, and it is never longer than max_output.
C6_CapturedIsPrefix ==
    \A s \in Streams :
        LET k == Len(childOut[s])
            keep == IF k <= maxOutputSize THEN k ELSE maxOutputSize
        IN  /\ lw[s].writer = SubSeq(childOut[s], 1, keep)
            /\ Len(lw[s].writer) <= maxOutputSize

\* a chunk straddled the cap: part of it was captured, the rest dropped
C6_Witness ==
    /\ maxOutputSize = 2
    /\ Len(childOut["stdout"]) = 4
    /\ lwRet["stdout"].n = 1
    /\ lwRet["stdout"].len = 3
    /\ Len(lw["stdout"].writer) = 2

\* C10: the history never holds more than 100 entries, and it is exactly the
\* (at most) 100 most recently appended entries, in the order of appending.
C10_HistoryIsLast100 ==
    /\ Len(history) <= 100
    /\ LET n == Len(appendLog)
           first == IF n > 100 THEN n - 100 ELSE 0
       IN  /\ Len(history) = n - first
           /\ \A i \in 1..Len(history) : history[i] = appendLog[first + i]

\* more than 100 appended: the two oldest are gone
C10_Witness ==
    /\ Len(appendLog) = 102
    /\ Len(history) = 100
    /\ history[1].Timestamp = 3
    /\ history[100].Timestamp = 102

\* C2: a request whose command fails ValidateCommand never gets a child
\* process, and its call returns exit code -1 with an error that begins
\* with "command validation failed: ".
C2_RefusedNoChild ==
    \A p \in Procs :
        (/\ pc[p] # "idle"
         /\ Rejected(validationErr[p]))
        => /\ spawned[p] = 0
           /\ pc[p] = "done"
           /\ resp[p].ExitCode = -1
           /\ Len(resp[p].Error) > 1
           /\ resp[p].Error[1] = "command validation failed: "

\* the blacklisted command came back refused
C2_Witness ==
    \E p \in Procs :
        /\ pc[p] = "done"
        /\ req[p].Command = <<"r", "m", " ", "-", "r", "f", " ", "/">>
        /\ resp[p].ExitCode = -1
        /\ spawned[p] = 0

\* C3: in every reachable state the calls between acquiring a slot and
\* returning are at most max_concurrent.
C3_AtMostMaxConcurrent ==
    Cardinality({p \in Procs : pc[p] \in {"start", "running", "history", "return"}})
        <= maxConcurrent

\* more submissions than slots: one call runs its child while another is at
\* the select with no slot left
C3_Witness ==
    \E p, q \in Procs :
        /\ p # q
        /\ pc[p] = "running"
        /\ pc[q] = "acquire"
        /\ sem = 0

\* C4: for one client key with limit N, of 2N validated requests inside one
\* window that starts with no admitted request of the key still in it,
\* exactly the first N pass checkRateLimit and the other N are refused with
\* exit code -1 and an error that begins with "rate limit exceeded".
C4_BurstHalfPasses ==
    \A k \in ClientKeys :
        LET L == rlLog[k]
            N == rateLimit
        IN  \A i \in 1..Len(L) :
                (/\ \A j \in 1..(i - 1) : L[j].ok => L[i].t - L[j].t >= 60
                 /\ i + 2 * N - 1 <= Len(L)
                 /\ L[i + 2 * N - 1].t - L[i].t < 60)
                => \A j \in 0..(2 * N - 1) :
                       IF j < N
                       THEN L[i + j].ok
                       ELSE /\ ~L[i + j].ok
                            /\ L[i + j].resp.ExitCode = -1
                            /\ Len(L[i + j].resp.Error) > 0
                            /\ L[i + j].resp.Error[1] = "rate limit exceeded: "

\* limit 2 and a burst of 4 by one client: two passed, two were refused
C4_Witness ==
    /\ rateLimit = 2
    /\ Len(rlLog["test"]) = 4
    /\ rlLog["test"][4].t - rlLog["test"][1].t < 60
    /\ rlLog["test"][1].ok
    /\ rlLog["test"][2].ok
    /\ ~rlLog["test"][3].ok
    /\ ~rlLog["test"][4].ok

\* C5: a call that acquired a slot has appended exactly one history entry
\* by the time it returns, whatever its outcome; a call refused by
\* validation has appended none.
C5_OneEntryPerExecution ==
    \A p \in Procs :
        pc[p] = "done"
        => /\ acquired[p] => appended[p] = 1
           /\ Rejected(validationErr[p]) => appended[p] = 0

C9_BadEnvRefused ==
    \A p \in Procs :
        (/\ pc[p] # "idle"
         /\ \E kv \in req[p].Env :
                \E n \in 1..2 : \E i \in 1..Len(kv[n]) : kv[n][i] \in {"\n", "\r"})
        => /\ spawned[p] = 0
           /\ pc[p] = "done"
                  => /\ resp[p].ExitCode = -1
                     /\ resp[p].Error # <<>>

\* a variable name with CR got as far as the env check and was refused there
C9_Witness ==
    \E p \in Procs :
        /\ pc[p] = "done"
        /\ acquired[p]
        /\ \E kv \in req[p].Env : \E i \in 1..Len(kv[1]) : kv[1][i] = "\r"
        /\ resp[p].ExitCode = -1
        /\ resp[p].Error = <<"environment variable contains invalid characters">>
        /\ spawned[p] = 0

\* C11: in every reachable state the history entries are ordered by start
\* timestamp, also when one execution started before another and completed
\* after it (two entries of one clock reading are taken as ordered).
C11_HistoryOrdered ==
    \A i, j \in 1..Len(history) :
        i < j => history[i].Timestamp <= history[j].Timestamp

\* C12: GetHistory(limit) with limit >= 1 returns exactly the
\* min(limit, size) most recently appended entries, oldest first; with
\* limit <= 0 it returns all size entries (size being the number of entries
\* the history holds, at most 100).
C12_GetHistoryMostRecent ==
    historyQuery.state = "returned"
    => LET at == historyQuery.at
           size == IF at > 100 THEN 100 ELSE at
           k == IF historyQuery.limit >= 1 /\ historyQuery.limit < size
                THEN historyQuery.limit
                ELSE size
       IN  /\ Len(historyQuery.result) = k
           /\ \A i \in 1..k : historyQuery.result[i] = appendLog[at - k + i]

\* three executions recorded, the last two asked for
C12_Witness ==
    /\ historyQuery.state = "returned"
    /\ historyQuery.limit = 2
    /\ historyQuery.at = 3
    /\ historyQuery.result = <<appendLog[2], appendLog[3]>>
    /\ appendLog[2] # appendLog[3]

\* C13: the timeout the agent uses is in 1..300: a value <= 0 sent becomes
\* 30, a value > 300 becomes 300, any other value is unchanged; the hub's
\* clamp gives the same values, and the agent's clamp leaves a hub-clamped
\* value unchanged.
C13_TimeoutClamped ==
    LET Expected(t) == IF t <= 0 THEN 30 ELSE IF t > 300 THEN 300 ELSE t
    IN  /\ clamp.viaHub
           => /\ clamp.hub \in 1..300
              /\ clamp.hub = Expected(clamp.sent)
        /\ clamp.stage = "agent"
           => /\ clamp.agent \in 1..300
              /\ clamp.agent = Expected(clamp.sent)
              /\ clamp.viaHub => clamp.agent = clamp.hub

\* 301 seconds sent straight to the executor were cut to 300
C13_Witness ==
    /\ clamp.stage = "agent"
    /\ ~clamp.viaHub
    /\ clamp.sent = 301
    /\ clamp.agent = 300

\* C14: limitedWriter.Write always reports the whole input as written:
\* the count returned by the last Write on each stream equals the length of
\* the chunk it was given.
C14_WriteReportsWhole ==
    \A s \in Streams : lwRet[s].n = lwRet[s].len

\* C15: a call whose command passed validation and whose executable does
\* not exist (it took a slot and cmd.Run started no child) returns exit code
\* 127 with the error "command not found", the compound form of a whitelist
\* entry included.
C15_MissingIs127 ==
    \A p \in Procs :
        (/\ pc[p] = "done"
         /\ acquired[p]
         /\ spawned[p] = 0)
        => /\ resp[p].ExitCode = 127
           /\ resp[p].Error = <<"command not found">>

C17_InjectionMessage ==
    \A p \in Procs :
        (/\ pc[p] = "done"
         /\ req[p].Command = <<"/", "b", "i", "n", "/", "l", "s", ";", " ",
                               "r", "m", " ", "-", "r", "f", " ", "/">>)
        => /\ resp[p].ExitCode = -1
           /\ Len(resp[p].Error) >= 2
           /\ resp[p].Error[2] = "command contains injection pattern: "

\* C17: the request with command "/bin/ls; rm -rf /" returns exit code -1
\* with the error "command validation failed: command contains dangerous
\* pattern: rm -rf" (the blacklist scan runs before the injection scan), and
\* no child is started.
C17_DangerousMessage ==
    \A p \in Procs :
        (/\ pc[p] # "idle"
         /\ req[p].Command = <<"/", "b", "i", "n", "/", "l", "s", ";", " ",
                               "r", "m", " ", "-", "r", "f", " ", "/">>)
        => /\ pc[p] = "done"
           /\ resp[p].ExitCode = -1
           /\ resp[p].Error = <<"command validation failed: ",
                                "command contains dangerous pattern: ",
                                <<"r", "m", " ", "-", "r", "f">>>>
           /\ spawned[p] = 0

\* the request was made under allow_all and came back refused
C17_Witness ==
    \E p \in Procs :
        /\ whitelist.isNil
        /\ pc[p] = "done"
        /\ req[p].Command = <<"/", "b", "i", "n", "/", "l", "s", ";", " ",
                              "r", "m", " ", "-", "r", "f", " ", "/">>
        /\ resp[p].ExitCode = -1
        /\ Len(resp[p].Error) = 3

\* C18: NewCommandExecutor terminates for every positive value of
\* COMMAND_MAX_CONCURRENT: its fill loop is never left waiting on a send to
\* the full semaphore channel (no receiver exists before it returns), and
\* when it has returned the semaphore holds exactly max_concurrent slots.
C18_ConstructorTerminates ==
    /\ ~(/\ ctor.pc = "fill"
         /\ ctor.i < maxConcurrent
         /\ sem = 5)
    /\ ctor.pc = "returned" => sem = maxConcurrent

\* C19: whitelisting is disabled only by the value allow_all: after
\* loadConfig under any other value of COMMAND_WHITELIST the whitelist is
\* not nil, and the executor refuses a command that no whitelist holds.
C19_FailsClosed ==
    (/\ ctor.pc \in {"fill", "returned"}
     /\ envWhitelist # [exists |-> TRUE,
                        value |-> <<"a", "l", "l", "o", "w", "_", "a", "l", "l">>])
    => /\ ~whitelist.isNil
       /\ (vState = "checked" /\ vCommand = <<"/", "b", "i", "n", "/", "s", "h">>)
          => Rejected(vErr)

\* C20: under any interleaving of concurrent first calls on one Agent at
\* most one executor is ever constructed, and all calls that reached an
\* executor reached the same one.
C20_OneExecutor ==
    /\ agent.built <= 1
    /\ \A c, d \in AgentCallers :
           (agent.used[c] # 0 /\ agent.used[d] # 0)
           => agent.used[c] = agent.used[d]

(***************************************************************************)
(* The first call of each caller, whose ctx the caller may cancel at any   *)
(* moment; cmdCtx is derived from ctx (context.WithTimeout(ctx, ...)), so  *)
(* it is done as soon as ctx is.  No time passes: no deadline is reached.  *)
(***************************************************************************)
InitCancel ==
    /\ DefaultConfig
    /\ NoValidate
    /\ NoWriter
    /\ NoHistory
    /\ IdleExecutor
    /\ NothingAlone

\* the caller gives up: it cancels the ctx it passed to ExecuteCommand
CancelCtx(p) ==
    /\ pc[p] \notin {"idle", "done"}
    /\ ~ctxDone[p]
    /\ ctxDone' = [ctxDone EXCEPT ![p] = TRUE]
    /\ UNCHANGED <<whitelist, allowedPaths, maxOutputSize, aloneVars, hub,
                   session, validateVars, writerVars, historyVars, execVars>>

\* lines 363-408 with cmdCtx already done: cmd.Run returns ctx.Err() without
\* starting a child
StartCanceled(p) ==
    /\ ctxDone[p]
    /\ StartFails(p, RunCanceled)

\* exec.CommandContext: cmdCtx is done because its parent ctx was cancelled,
\* and the child is killed
KillOnCancel(p) ==
    /\ pc[p] = "running"
    /\ child[p].state = "running"
    /\ ctxDone[p]
    /\ child' = [child EXCEPT ![p] = [state |-> "killed", status |-> -1]]
    /\ UNCHANGED <<cfgVars, validateVars, writerVars, historyVars, execCfgVars,
                   sharedVars, pc, req, clientKey, startTime, validationErr, deadline, resp,
                   ghostVars>>

NextCancel ==
    \/ \E p \in Procs, r \in ArgRequests : pc[p] = "idle" /\ CallRefused(p, r)
    \/ \E p \in Procs, r \in ArgRequests : pc[p] = "idle" /\ CallValidated(p, r)
    \/ \E p \in Procs : CancelCtx(p)
    \/ \E p \in Procs : RateAdmitted(p)
    \/ \E p \in Procs : AcquireSlot(p)
    \/ \E p \in Procs : ~ctxDone[p] /\ StartChild(p)
    \/ \E p \in Procs : StartCanceled(p)
    \/ \E p \in Procs, status \in ExitStatuses : ChildExits(p, status)
    \/ \E p \in Procs : KillOnCancel(p)
    \/ \E p \in Procs : RunReturns(p)
    \/ \E p \in Procs : AddHistory(p)
    \/ \E p \in Procs : Return(p)

SpecCancel == InitCancel /\ [][NextCancel]_vars


(***************************************************************************)
(* The hub's two API handlers, each request in its own task, and the one   *)
(* session of the known agent                                              *)
(***************************************************************************)
\* getCommandHistory, "Parse query parameters"
ParseLimit(limitStr) ==
    IF limitStr # <<>>
    THEN IF ~Sscanf(limitStr).ok \/ Sscanf(limitStr).value <= 0
            \/ Sscanf(limitStr).value > 100
         THEN 10
         ELSE Sscanf(limitStr).value
    ELSE 10

\* the closes of the session that are followed
MaxCloses == 2

\* everything but the hub and the session
notHub ==
    <<whitelist, allowedPaths, maxOutputSize, aloneVars, ctxDone, validateVars,
      writerVars, historyVars, execVars>>

\* the bodies of the execute requests: not JSON, without a command, and
\* with one (without a timeout, and with one beyond the maximum)
ApiBodies ==
    { [parses |-> FALSE, Command |-> <<>>, Timeout |-> 0],
      [parses |-> TRUE, Command |-> <<>>, Timeout |-> 0],
      [parses |-> TRUE, Command |-> LsCommand, Timeout |-> 0],
      [parses |-> TRUE, Command |-> LsCommand, Timeout |-> 400] }

\* the limit parameters of the history requests: none, 5, 0
LimitStrings == { <<>>, <<"5">>, <<"0">> }

\* the response envelopes an agent may send: with and without an envelope
\* error, and with Data of every form
Envelopes ==
    { [Error |-> error, Data |-> data] :
          error \in {"", "handler failed"},
          data \in { Garbage,
                     ResponseData(0, ""),
                     ResponseData(1, ""),
                     ResponseData(-1, "validation failed"),
                     ResponseData(-2, "command timed out"),
                     ResponseData(127, "command not found"),
                     HistoryData(0),
                     HistoryData(1) } }

InitHub ==
    /\ DefaultConfig
    /\ NoValidate
    /\ NoWriter
    /\ NoHistory
    /\ IdleExecutor
    /\ NothingAlone

\* the request of call c ends with this answer
Answered(call, answer) ==
    [call EXCEPT !.pc = "done", !.http = answer.http, !.body = answer.body]

\* the answer of the handler of this kind to what the RPC returned
HubAnswer(kind, err, handled) ==
    IF kind = "execute"
    THEN ExecuteAnswer(err, handled.result)
    ELSE HistoryAnswer(err, handled.result)

\* executeCommand up to its call of executeCommandOnAgent
ExecuteCommandApi(c, agentID, body) ==
    /\ hub.calls[c].pc = "none"
    /\ LET call == [NoApiCall EXCEPT !.kind = "execute", !.agentID = agentID,
                                     !.arg = HubClampTimeout(body.Timeout)]
           early == IF agentID = ""
                    THEN Answer(400, ErrorBody("agent ID is required"))
                    ELSE IF ~body.parses
                    THEN Answer(400, ErrorBody("invalid request body"))
                    ELSE IF body.Command = <<>>
                    THEN Answer(400, ErrorBody("command is required"))
                    ELSE LookupAnswer(agentID, hub.status)
       IN  hub' = [hub EXCEPT !.calls[c] =
                       IF early.http # 0 THEN Answered(call, early)
                       ELSE [call EXCEPT !.pc = "connect"]]
    /\ UNCHANGED <<session, notHub>>

\* getCommandHistory up to its call of getCommandHistoryFromAgent
GetCommandHistoryApi(c, agentID, limitStr) ==
    /\ hub.calls[c].pc = "none"
    /\ LET call == [NoApiCall EXCEPT !.kind = "history", !.agentID = agentID,
                                     !.arg = ParseLimit(limitStr)]
           early == IF agentID = ""
                    THEN Answer(400, ErrorBody("agent ID is required"))
                    ELSE LookupAnswer(agentID, hub.status)
       IN  hub' = [hub EXCEPT !.calls[c] =
                       IF early.http # 0 THEN Answered(call, early)
                       ELSE [call EXCEPT !.pc = "connect"]]
    /\ UNCHANGED <<session, notHub>>

\* a dispatch that trusts the online check and goes on to SendAndWait
\* without looking at the connection
ConnectionCheckSkipped(c) ==
    /\ hub.calls[c].pc = "connect"
    /\ hub' = [hub EXCEPT !.calls[c].pc = "send"]
    /\ UNCHANGED <<session, notHub>>

\* executeCommandOnAgent and getCommandHistoryFromAgent: WebSocket if the
\* connection is there, else the error, which the handler answers
ConnectionCheck(c) ==
    /\ hub.calls[c].pc = "connect"
    /\ hub' = [hub EXCEPT !.calls[c] =
                   IF session.connected
                   THEN [@ EXCEPT !.pc = "send"]
                   ELSE Answered(@, HubAnswer(@.kind,
                            ErrorsNew("no connection available to agent"),
                            [err |-> NilErr,
                             result |-> IF @.kind = "execute"
                                        THEN ZeroResponse ELSE 0]))]
    /\ UNCHANGED <<session, notHub>>

\* SendAndWait, first half: on an open session a fresh id is reserved, the
\* waiter registered and the request envelope written; on a closed one the
\* call ends with Disconnected and nothing is written
SessionSend(c) ==
    /\ hub.calls[c].pc = "send"
    /\ IF session.connected
       THEN /\ session' =
                  [session EXCEPT
                      !.nextId = @ + 1,
                      !.pending = @ \cup {session.nextId},
                      !.wire = Append(@, [id |-> session.nextId,
                                          action |-> ActionOf(hub.calls[c].kind),
                                          kind |-> hub.calls[c].kind])]
            /\ hub' = [hub EXCEPT !.calls[c].pc = "waiting",
                                  !.calls[c].id = session.nextId]
       ELSE /\ hub' = [hub EXCEPT !.calls[c].pc = "resolved",
                                  !.calls[c].outcome =
                                      [kind |-> "disconnected", env |-> NoEnvelope]]
            /\ UNCHANGED session
    /\ UNCHANGED notHub

\* the agent's handler answers a request it received, once, with the
\* request's id
AgentAnswers(id, env) ==
    /\ session.connected
    /\ \E i \in 1..Len(session.wire) : session.wire[i].id = id
    /\ \A m \in session.answered : m.id # id
    /\ session' = [session EXCEPT
                       !.answered = @ \cup {[id |-> id, env |-> env]},
                       !.inbox = @ \cup {[id |-> id, env |-> env]}]
    /\ UNCHANGED <<hub, notHub>>

\* the waiter of call c is completed with this outcome and leaves the table
Resolve(calls, c, outcome) ==
    [calls EXCEPT ![c].pc = "resolved", ![c].outcome = outcome]

\* the reader takes a response envelope: the waiter of its id gets it, an
\* envelope without a waiter is dropped
ReaderDispatch(m) ==
    /\ session.connected
    /\ m \in session.inbox
    /\ IF m.id \in session.pending
       THEN LET c == CHOOSE c \in ApiCalls :
                         hub.calls[c].pc = "waiting" /\ hub.calls[c].id = m.id
            IN  /\ hub' = [hub EXCEPT !.calls =
                               Resolve(@, c, [kind |-> "response", env |-> m.env])]
                /\ session' = [session EXCEPT
                                   !.inbox = @ \ {m},
                                   !.pending = @ \ {m.id},
                                   !.resolved[c] = @ + 1]
       ELSE /\ session' = [session EXCEPT !.inbox = @ \ {m}]
            /\ UNCHANGED hub
    /\ UNCHANGED notHub

\* a deadline that goes unnoticed: the waiter stays in the table
CtxDeadlineIgnored(c) ==
    /\ hub.calls[c].pc = "waiting"
    /\ hub.calls[c].id \in session.pending
    /\ UNCHANGED vars

\* the 10 seconds of the ctx of call c are over before a response: the
\* waiter is discarded
CtxDeadline(c) ==
    /\ hub.calls[c].pc = "waiting"
    /\ hub.calls[c].id \in session.pending
    /\ hub' = [hub EXCEPT !.calls =
                   Resolve(@, c, [kind |-> "deadline", env |-> NoEnvelope])]
    /\ session' = [session EXCEPT !.pending = @ \ {hub.calls[c].id},
                                  !.resolved[c] = @ + 1]
    /\ UNCHANGED notHub

\* the calls whose waiters are in the table
Waiting == {c \in ApiCalls : hub.calls[c].pc = "waiting"
                             /\ hub.calls[c].id \in session.pending}

\* a close that shuts the channel and leaves the waiters where they are
CloseLeavesWaiters ==
    /\ session.attached
    /\ session.closes < MaxCloses
    /\ session' = [session EXCEPT !.connected = FALSE, !.closes = @ + 1]
    /\ UNCHANGED <<hub, notHub>>

\* close(): the first one shuts the channel and fails the waiters of the
\* table with Disconnected, a later one finds nothing to do
Close ==
    /\ session.attached
    /\ session.closes < MaxCloses
    /\ IF session.connected
       THEN /\ hub' = [hub EXCEPT !.calls =
                           [c \in ApiCalls |->
                               IF c \in Waiting
                               THEN [@[c] EXCEPT !.pc = "resolved",
                                                 !.outcome = [kind |-> "disconnected",
                                                              env |-> NoEnvelope]]
                               ELSE @[c]]]
            /\ session' = [session EXCEPT
                               !.connected = FALSE,
                               !.closes = @ + 1,
                               !.pending = {},
                               !.resolved = [c \in ApiCalls |->
                                                IF c \in Waiting THEN @[c] + 1 ELSE @[c]]]
       ELSE /\ session' = [session EXCEPT !.closes = @ + 1]
            /\ UNCHANGED hub
    /\ UNCHANGED notHub

\* attach: the agent's handshake succeeded, the session is made and the
\* registry entry goes online
Attach ==
    /\ ~session.attached
    /\ session' = [session EXCEPT !.attached = TRUE, !.connected = TRUE]
    /\ hub' = [hub EXCEPT !.status = "online"]
    /\ UNCHANGED notHub

\* the registry entry of an agent whose session was closed goes offline
MarkOffline ==
    /\ session.attached
    /\ ~session.connected
    /\ hub.status = "online"
    /\ hub' = [hub EXCEPT !.status = "offline"]
    /\ UNCHANGED <<session, notHub>>

\* SendAndWait, second half, and the rest of the handler: the response goes
\* through the Handle of the call's kind, whose error SendAndWait returns;
\* executeCommand or getCommandHistory answers
SendAndWaitReturns(c) ==
    /\ hub.calls[c].pc = "resolved"
    /\ LET call == hub.calls[c]
           handled == IF call.kind = "execute"
                      THEN CommandHandle(call.outcome.env)
                      ELSE HistoryHandle(call.outcome.env)
           err == SendAndWaitError(call.outcome, handled)
       IN  hub' = [hub EXCEPT !.calls[c] =
                       Answered(@, HubAnswer(call.kind, err, handled))]
    /\ UNCHANGED <<session, notHub>>

\* the one request followed through the handlers
HubCalls == {1}

NextHub ==
    \/ \E c \in HubCalls, a \in AgentIds, b \in ApiBodies : ExecuteCommandApi(c, a, b)
    \/ \E c \in HubCalls, a \in AgentIds, l \in LimitStrings :
           GetCommandHistoryApi(c, a, l)
    \/ \E c \in HubCalls : ConnectionCheck(c)
    \/ \E c \in HubCalls : SessionSend(c)
    \/ \E id \in 1..Cardinality(HubCalls), env \in Envelopes : AgentAnswers(id, env)
    \/ \E m \in session.inbox : ReaderDispatch(m)
    \/ \E c \in HubCalls : CtxDeadline(c)
    \/ Close
    \/ Attach
    \/ MarkOffline
    \/ \E c \in HubCalls : SendAndWaitReturns(c)

SpecHub == InitHub /\ [][NextHub]_vars

(***************************************************************************)
(* Concurrent SendAndWait calls on the session: two requests for the known *)
(* agent, answered with or without an envelope error                       *)
(***************************************************************************)
SessionEnvelopes ==
    { [Error |-> "", Data |-> ResponseData(0, "")],
      [Error |-> "handler failed", Data |-> Garbage] }

SessionBody == [parses |-> TRUE, Command |-> LsCommand, Timeout |-> 0]

NextSession ==
    \/ \E c \in ApiCalls : ExecuteCommandApi(c, KnownAgent, SessionBody)
    \/ \E c \in ApiCalls : GetCommandHistoryApi(c, KnownAgent, <<>>)
    \/ \E c \in ApiCalls : ConnectionCheck(c)
    \/ \E c \in ApiCalls : SessionSend(c)
    \/ \E id \in 1..Cardinality(ApiCalls), env \in SessionEnvelopes :
           AgentAnswers(id, env)
    \/ \E m \in session.inbox : ReaderDispatch(m)
    \/ \E c \in ApiCalls : CtxDeadline(c)
    \/ Close
    \/ Attach
    \/ MarkOffline
    \/ \E c \in ApiCalls : SendAndWaitReturns(c)

\* a request task that can take its next step takes it, and the timer of a
\* ctx made by context.WithTimeout fires
SpecSession ==
    /\ InitHub
    /\ [][NextSession]_vars
    /\ \A c \in ApiCalls :
           /\ WF_vars(ConnectionCheck(c))
           /\ WF_vars(SessionSend(c))
           /\ WF_vars(CtxDeadline(c))
           /\ WF_vars(SendAndWaitReturns(c))

(***************************************************************************)
(* ce.history as a Go slice over a backing array, and a slice that         *)
(* GetHistory handed to a caller                                           *)
(***************************************************************************)
\* the executions followed
MaxAliasAppends == 3

\* the zero value of an element the array holds beyond the slices' lengths
ZeroEntry == -1

\* what the caller writes into the slice it got
CallerEntry == 0

\* the elements of slice s
SliceValues(heap, s) == [i \in 1..s.len |-> heap[s.arr][s.off + i]]

\* s[from:]
Reslice(s, from) ==
    [arr |-> s.arr, off |-> s.off + from, len |-> s.len - from, cap |-> s.cap - from]

\* append(s, v): in place when the capacity allows, else into a new array
\* of twice the capacity that takes a copy of the elements
GoAppend(heap, s, v) ==
    IF s.len < s.cap
    THEN [heap |-> [heap EXCEPT ![s.arr][s.off + s.len + 1] = v],
          slice |-> [s EXCEPT !.len = @ + 1]]
    ELSE LET newcap == IF s.cap = 0 THEN 1 ELSE 2 * s.cap
             array == [i \in 1..newcap |->
                          IF i <= s.len THEN heap[s.arr][s.off + i]
                          ELSE IF i = s.len + 1 THEN v
                          ELSE ZeroEntry]
         IN  [heap |-> Append(heap, array),
              slice |-> [arr |-> Len(heap) + 1, off |-> 0, len |-> s.len + 1,
                         cap |-> newcap]]

\* addToHistory on the slice
AddToHistorySlice(heap, s, entry) ==
    LET r == GoAppend(heap, s, entry)
    IN  [heap |-> r.heap,
         slice |-> IF r.slice.len > HistoryCap
                   THEN Reslice(r.slice, r.slice.len - HistoryCap)
                   ELSE r.slice]

\* GetHistory: ce.history[start:], a slice of the same array
GetHistorySlice(heap, s, limit) ==
    LET n == IF limit <= 0 \/ limit > s.len THEN s.len ELSE limit
    IN  [heap |-> heap, slice |-> Reslice(s, s.len - n)]

\* the limits asked for
AliasLimits == {0, 1, 2}

InitAlias ==
    /\ DefaultConfig
    /\ NoValidate
    /\ NoWriter
    /\ NoHistory
    /\ IdleExecutor
    /\ NothingAlone

notSlices ==
    <<whitelist, allowedPaths, maxOutputSize, historyQuery, clamp, envWhitelist,
      ctor, agent, db, rpcVars, validateVars, writerVars, historyVars, execVars>>

\* an execution completes: its entry (numbered in the order of appending)
\* goes into the history
AliasAddToHistory ==
    /\ Len(slices.log) < MaxAliasAppends
    /\ LET entry == Len(slices.log) + 1
           r == AddToHistorySlice(slices.heap, slices.history, entry)
       IN  slices' = [slices EXCEPT !.heap = r.heap, !.history = r.slice,
                                    !.log = Append(@, entry)]
    /\ UNCHANGED notSlices

\* a caller calls GetHistory and keeps what it returns
AliasGetHistory(limit) ==
    /\ ~slices.held
    /\ LET r == GetHistorySlice(slices.heap, slices.history, limit)
       IN  slices' = [slices EXCEPT !.heap = r.heap, !.got = r.slice, !.held = TRUE,
                                    !.expect = SliceValues(r.heap, r.slice)]
    /\ UNCHANGED notSlices

\* the caller changes element i of its slice
CallerSets(i) ==
    /\ slices.held
    /\ i \in 1..slices.got.len
    /\ slices.expect[i] # CallerEntry
    /\ slices' = [slices EXCEPT
                      !.heap[slices.got.arr][slices.got.off + i] = CallerEntry,
                      !.expect[i] = CallerEntry]
    /\ UNCHANGED notSlices

\* the caller appends to its slice, once
CallerAppends ==
    /\ slices.held
    /\ ~slices.appended
    /\ LET r == GoAppend(slices.heap, slices.got, CallerEntry)
       IN  slices' = [slices EXCEPT !.heap = r.heap, !.got = r.slice,
                                    !.expect = Append(@, CallerEntry),
                                    !.appended = TRUE]
    /\ UNCHANGED notSlices

NextAlias ==
    \/ AliasAddToHistory
    \/ \E limit \in AliasLimits : AliasGetHistory(limit)
    \/ \E i \in 1..MaxAliasAppends : CallerSets(i)
    \/ CallerAppends

SpecAlias == InitAlias /\ [][NextAlias]_vars

(***************************************************************************)
(* CreateTenant on the public schema: the statements it sends are separate *)
(* statements of the database (no transaction), and each of them may fail  *)
(***************************************************************************)
\* the CreateTenant calls followed
MaxTenantCalls == 2

TenantNames == {"acme", "globex"}

SchemaNames == {"tenant_acme", "tenant_globex"}

\* db.Create(tenant): the insert fails by itself, or for the unique indexes
\* on name and schema_name; the primary key is generated by the database
DbCreate(d, name, schemaName, ok) ==
    IF /\ ok
       /\ \A t \in d.tenants : t.Name # name /\ t.SchemaName # schemaName
    THEN LET tenant == [ID |-> d.nextId, Name |-> name, SchemaName |-> schemaName,
                        Active |-> TRUE]
         IN  [tenants |-> d.tenants \cup {tenant}, nextId |-> d.nextId + 1,
              tenant |-> tenant, err |-> NilError]
    ELSE [tenants |-> d.tenants, nextId |-> d.nextId, tenant |-> <<>>,
          err |-> <<"failed to create tenant: ", "insert">>]

\* db.Delete(tenant): deletes the record with the tenant's primary key,
\* unless the statement fails
DbDelete(tenants, tenant, ok) ==
    IF ok THEN {t \in tenants : t.ID # tenant.ID} ELSE tenants

\* everything but the database
notDb ==
    <<whitelist, allowedPaths, maxOutputSize, historyQuery, clamp, envWhitelist,
      ctor, agent, slices, rpcVars, validateVars, writerVars, historyVars,
      execVars>>

InitTenant ==
    /\ DefaultConfig
    /\ NoValidate
    /\ NoWriter
    /\ NoHistory
    /\ IdleExecutor
    /\ NothingAlone

\* CreateTenant, "Create tenant record"
CreateTenantRecord(c, name, schemaName, ok) ==
    /\ db.calls[c].pc \in {"idle", "returned"}
    /\ db.made < MaxTenantCalls
    /\ LET r == DbCreate(db, name, schemaName, ok)
       IN  db' = [db EXCEPT
                      !.tenants = r.tenants,
                      !.nextId = r.nextId,
                      !.made = @ + 1,
                      !.calls[c] =
                          IF Rejected(r.err)
                          THEN [pc |-> "returned", tenant |-> <<>>,
                                inserted |-> FALSE, err |-> r.err]
                          ELSE [pc |-> "schema", tenant |-> r.tenant,
                                inserted |-> TRUE, err |-> NilError]]
    /\ UNCHANGED notDb

\* CreateTenantSchema, "Create schema": CREATE SCHEMA IF NOT EXISTS
CreateSchema(c, ok) ==
    /\ db.calls[c].pc = "schema"
    /\ db' = IF ok
             THEN [db EXCEPT !.schemas = @ \cup {db.calls[c].tenant.SchemaName},
                             !.calls[c].pc = "table"]
             ELSE [db EXCEPT !.calls[c].pc = "rollback",
                             !.calls[c].err =
                                 <<"failed to create schema ",
                                   db.calls[c].tenant.SchemaName>>]
    /\ UNCHANGED notDb

\* CreateTenantSchema, CREATE TABLE IF NOT EXISTS <schema>.systems; with it
\* done CreateTenant returns the tenant
CreateSystemsTable(c, ok) ==
    /\ db.calls[c].pc = "table"
    /\ db' = IF ok
             THEN [db EXCEPT !.tables = @ \cup {db.calls[c].tenant.SchemaName},
                             !.calls[c].pc = "returned"]
             ELSE [db EXCEPT !.calls[c].pc = "rollback",
                             !.calls[c].err =
                                 <<"failed to create systems table in schema ",
                                   db.calls[c].tenant.SchemaName>>]
    /\ UNCHANGED notDb

\* CreateTenant, "Rollback tenant creation if schema creation fails": the
\* result of db.Delete is not looked at, and the error of
\* CreateTenantSchema is returned
RollbackTenant(c, ok) ==
    /\ db.calls[c].pc = "rollback"
    /\ db' = [db EXCEPT !.tenants = DbDelete(@, db.calls[c].tenant, ok),
                        !.calls[c].pc = "returned"]
    /\ UNCHANGED notDb

NextTenant ==
    \/ \E c \in TenantCallers, name \in TenantNames, schemaName \in SchemaNames,
          ok \in BOOLEAN : CreateTenantRecord(c, name, schemaName, ok)
    \/ \E c \in TenantCallers, ok \in BOOLEAN : CreateSchema(c, ok)
    \/ \E c \in TenantCallers, ok \in BOOLEAN : CreateSystemsTable(c, ok)
    \/ \E c \in TenantCallers, ok \in BOOLEAN : RollbackTenant(c, ok)

SpecTenant == InitTenant /\ [][NextTenant]_vars
\* C21: cancelling the ctx passed to ExecuteCommand does not stop a child
\* that is already running: a child is killed only when its own deadline
\* has elapsed.
C21_CancelDoesNotKill ==
    \A p \in Procs :
        child[p].state = "killed" => now >= deadline[p]

\* C22: acquiring a slot never blocks: a call at the select can always take
\* its next step, and when no slot is left that step is the return of exit
\* code -1 with the error "maximum concurrent command execution limit
\* reached", nothing else changing (no other call has to move first).
C22_AcquireNeverBlocks ==
    /\ [](\A p \in Procs :
              pc[p] = "acquire" => ENABLED (AcquireSlot(p) \/ SlotsExhausted(p)))
    /\ [][\A p \in Procs :
              (pc[p] = "acquire" /\ sem = 0 /\ pc'[p] # "acquire")
              => /\ pc'[p] = "done"
                 /\ resp'[p].ExitCode = -1
                 /\ resp'[p].Error =
                        <<"maximum concurrent command execution limit reached">>
                 /\ sem' = sem
                 /\ child' = child
                 /\ \A q \in Procs \ {p} : pc'[q] = pc[q]]_vars

\* the only slot is taken by a call whose child is still running, and the
\* other call has already returned with the refusal
C22_Witness ==
    \E p, q \in Procs :
        /\ p # q
        /\ pc[p] = "running"
        /\ child[p].state = "running"
        /\ sem = 0
        /\ pc[q] = "done"
        /\ resp[q].ExitCode = -1
        /\ resp[q].Error = <<"maximum concurrent command execution limit reached">>
        /\ startTime[q] >= startTime[p]


\* C23: a hub execute or history request (one that is not refused with 400
\* as malformed) for an unknown agent is answered 404, and for a known
\* agent whose status is not online 503 with error "agent is offline"; in
\* both cases the handler ends there and nothing is written to the session,
\* then or later
C23_UnknownOrOffline ==
    /\ [](\A c \in ApiCalls :
              (hub.calls[c].pc = "done" /\ hub.calls[c].http \in {404, 503})
              => /\ hub.calls[c].id = 0
                 /\ \A i \in 1..Len(session.wire) :
                        \E d \in ApiCalls \ {c} : hub.calls[d].id = session.wire[i].id)
    /\ [][\A c \in ApiCalls :
              (/\ hub.calls[c].pc = "none"
               /\ hub'.calls[c].pc # "none"
               /\ hub'.calls[c].http # 400)
              => /\ hub'.calls[c].kind \in {"execute", "history"}
                 /\ hub'.calls[c].agentID # KnownAgent
                    => /\ hub'.calls[c].pc = "done"
                       /\ hub'.calls[c].http = 404
                       /\ session' = session
                 /\ (hub'.calls[c].agentID = KnownAgent /\ hub.status # "online")
                    => /\ hub'.calls[c].pc = "done"
                       /\ hub'.calls[c].http = 503
                       /\ hub'.calls[c].body.kind = "error"
                       /\ hub'.calls[c].body.error = "agent is offline"
                       /\ session' = session]_vars

\* a history request for the known agent, whose session was closed and
\* whose entry went offline, was answered 503 "agent is offline"; nothing
\* was ever written to the session
C23_Witness ==
    \E c \in ApiCalls :
        /\ hub.calls[c].pc = "done"
        /\ hub.calls[c].kind = "history"
        /\ hub.calls[c].agentID = KnownAgent
        /\ hub.calls[c].http = 503
        /\ hub.calls[c].body.error = "agent is offline"
        /\ session.attached
        /\ session.wire = <<>>

\* C24: an execute request that passed the lookup with the agent online and
\* then found the session disconnected, before the write or while the RPC
\* was in flight, is answered 503
C24_DisconnectedIs503 ==
    \A c \in ApiCalls :
        (/\ hub.calls[c].pc = "done"
         /\ hub.calls[c].kind = "execute"
         /\ \/ hub.calls[c].outcome.kind = "disconnected"
            \/ hub.calls[c].body.error = "no connection available to agent")
        => hub.calls[c].http = 503

\* C25: an execute or history request whose RPC ended with the hub-side
\* deadline, no response having arrived, is answered 504
C25_DeadlineIs504 ==
    \A c \in ApiCalls :
        (hub.calls[c].pc = "done" /\ hub.calls[c].outcome.kind = "deadline")
        => hub.calls[c].http = 504

\* C26: an execute or history request whose response envelope carries an
\* envelope error is answered 500 with that text, whatever the Data
C26_EnvelopeErrorIs500 ==
    \A c \in ApiCalls :
        (/\ hub.calls[c].pc = "done"
         /\ hub.calls[c].outcome.kind = "response"
         /\ hub.calls[c].outcome.env.Error # "")
        => /\ hub.calls[c].http = 500
           /\ hub.calls[c].body.kind = "error"
           /\ hub.calls[c].body.error = hub.calls[c].outcome.env.Error

\* C27: a history request is written to the session under an action tag
\* other than ExecuteCommand
C27_HistoryTagDistinct ==
    \A i \in 1..Len(session.wire) :
        session.wire[i].kind = "history" => session.wire[i].action # "ExecuteCommand"

\* C28: an execute request whose RPC completed with a response that decodes
\* to a CommandResponse (and carries no envelope error) is answered 200
\* with that CommandResponse, whatever its exit code
C28_Completed200 ==
    \A c \in ApiCalls :
        (/\ hub.calls[c].pc = "done"
         /\ hub.calls[c].kind = "execute"
         /\ hub.calls[c].outcome.kind = "response"
         /\ hub.calls[c].outcome.env.Error = ""
         /\ hub.calls[c].outcome.env.Data.form = "CommandResponse")
        => /\ hub.calls[c].http = 200
           /\ hub.calls[c].body.kind = "response"
           /\ hub.calls[c].body.response.ExitCode =
                  hub.calls[c].outcome.env.Data.ExitCode
           /\ hub.calls[c].body.response.Error =
                  hub.calls[c].outcome.env.Data.Error

\* a refused command (exit code -1) came back with 200
C28_Witness ==
    \E c \in ApiCalls :
        /\ hub.calls[c].pc = "done"
        /\ hub.calls[c].kind = "execute"
        /\ hub.calls[c].outcome.kind = "response"
        /\ hub.calls[c].outcome.env.Data.form = "CommandResponse"
        /\ hub.calls[c].outcome.env.Data.ExitCode = -1
        /\ hub.calls[c].http = 200
        /\ hub.calls[c].body.response.ExitCode = -1
        /\ hub.calls[c].body.response.Error = "validation failed"

\* C29: every SendAndWait call returns in the end; it ends in exactly one
\* way (the response envelope the agent sent for its id, the error of its
\* ctx, or Disconnected), its waiter is resolved exactly once and leaves the
\* table, and a request answered 200 has received that response
C29_SendAndWaitOnce ==
    /\ \A c \in ApiCalls :
           (hub.calls[c].pc \in {"send", "waiting"}) ~> (hub.calls[c].pc = "done")
    /\ [](\A c \in ApiCalls :
              /\ session.resolved[c] <= 1
              /\ hub.calls[c].pc = "waiting"
                 => /\ hub.calls[c].id \in session.pending
                    /\ session.resolved[c] = 0
                    /\ hub.calls[c].outcome.kind = "none"
              /\ (hub.calls[c].pc \in {"resolved", "done"} /\ hub.calls[c].id # 0)
                 => /\ hub.calls[c].id \notin session.pending
                    /\ session.resolved[c] = 1
                    /\ hub.calls[c].outcome.kind \in {"response", "deadline", "disconnected"}
              /\ hub.calls[c].outcome.kind = "response"
                 => /\ [id |-> hub.calls[c].id, env |-> hub.calls[c].outcome.env]
                           \in session.answered
                    /\ \A d \in ApiCalls \ {c} : hub.calls[d].id # hub.calls[c].id
              /\ (hub.calls[c].pc = "done" /\ hub.calls[c].http = 200)
                 => hub.calls[c].outcome.kind = "response")

\* both calls returned: one with its response, the other with the deadline
\* of its ctx, its late response dropped by the reader
C29_Witness ==
    \E c, d \in ApiCalls :
        /\ hub.calls[c].pc = "done"
        /\ hub.calls[c].outcome.kind = "response"
        /\ hub.calls[c].http = 200
        /\ hub.calls[d].pc = "done"
        /\ hub.calls[d].outcome.kind = "deadline"
        /\ \E m \in session.answered : m.id = hub.calls[d].id
        /\ session.inbox = {}
        /\ session.resolved = [x \in ApiCalls |-> 1]

\* C30: the close of an open session fails every waiter of the table with
\* Disconnected, so that no SendAndWait caller is left waiting on a closed
\* session; a close of a closed session changes nothing (but the count of
\* closes kept here)
C30_CloseFailsWaiters ==
    /\ []((session.attached /\ ~session.connected)
          => /\ session.pending = {}
             /\ \A c \in ApiCalls : hub.calls[c].pc # "waiting")
    /\ [][(session.connected /\ ~session'.connected)
          => \A c \in ApiCalls :
                 hub.calls[c].pc = "waiting"
                 => /\ hub'.calls[c].pc = "resolved"
                    /\ hub'.calls[c].outcome.kind = "disconnected"
                    /\ session'.resolved[c] = 1]_vars
    /\ [][(~session.connected /\ session'.closes # session.closes)
          => /\ hub' = hub
             /\ session' = [session EXCEPT !.closes = session'.closes]]_vars
    /\ \A c \in ApiCalls :
           (session.attached /\ ~session.connected) ~> (hub.calls[c].pc \in {"none", "done"})

\* the session was closed twice; a call that was waiting at the first close
\* returned with Disconnected
C30_Witness ==
    \E c \in ApiCalls :
        /\ session.closes = 2
        /\ hub.calls[c].pc = "done"
        /\ hub.calls[c].id # 0
        /\ hub.calls[c].outcome.kind = "disconnected"
        /\ session.resolved[c] = 1

C32_DirInsideAllowed ==
    (/\ vState = "checked"
     /\ whitelist.isNil
     /\ IsAbs(vCommand)
     /\ vErr = NilError)
    => \E i \in 1..Len(allowedPaths) :
           \/ Dir(vCommand) = allowedPaths[i]
           \/ HasPrefix(Dir(vCommand), allowedPaths[i] \o <<"/">>)

\* C33: what GetHistory returns is a copy: the history holds the entries the
\* executions appended, whatever a caller did to a slice it got, and a slice
\* a caller got holds what it held when returned plus the caller's own
\* changes, whatever executions completed since
C33_HistoryIsCopied ==
    /\ SliceValues(slices.heap, slices.history) = slices.log
    /\ slices.held => SliceValues(slices.heap, slices.got) = slices.expect

\* C34: ValidateCommand applies its checks in the order blacklist,
\* injection, path, whitelist: the error it returns is that of the first
\* check in this order that the command fails, and nil if it fails none
C34_EarliestCheckWins ==
    vState = "checked"
    => LET black == \E i \in 1..Len(Blacklist) : Contains(vCommand, Blacklist[i])
           inject == \E i \in 1..Len(InjectionPatterns) :
                         Contains(vCommand, InjectionPatterns[i])
           path == /\ IsAbs(vCommand)
                   /\ \A i \in 1..Len(allowedPaths) :
                          ~HasPrefix(Dir(vCommand), allowedPaths[i])
           white == /\ ~whitelist.isNil
                    /\ \A i \in 1..Len(whitelist.entries) :
                           /\ vCommand # whitelist.entries[i]
                           /\ ~HasPrefix(vCommand, whitelist.entries[i] \o <<" ">>)
       IN  IF black THEN vErr # NilError
                         /\ vErr[1] = "command contains dangerous pattern: "
           ELSE IF inject THEN vErr # NilError
                               /\ vErr[1] = "command contains injection pattern: "
           ELSE IF path THEN vErr # NilError
                             /\ vErr[1] = "command path not in allowed paths: "
           ELSE IF white THEN vErr # NilError
                              /\ vErr[1] = "command not in whitelist: "
           ELSE vErr = NilError

\* "/tmp/x;" fails the injection, the path and the whitelist check and was
\* refused for the injection pattern
C34_Witness ==
    /\ vState = "checked"
    /\ vCommand = <<"/", "t", "m", "p", "/", "x", ";">>
    /\ ~whitelist.isNil
    /\ allowedPaths = DefaultAllowedPaths
    /\ vErr = <<"command contains injection pattern: ", <<";">> >>

\* C35: a call refused by validation changes nothing of the executor: the
\* step in which it is made and refused leaves the rate-limit tracker, the
\* semaphore and the history as they were, and the refused call has taken
\* no slot, added no history entry and started no child
C35_RefusedChangesNothing ==
    /\ [](\A p \in Procs :
              (pc[p] = "done" /\ Rejected(validationErr[p]))
              => /\ ~acquired[p]
                 /\ appended[p] = 0
                 /\ spawned[p] = 0)
    /\ [][(/\ nCalls' = nCalls + 1
           /\ \A p \in Procs : pc'[p] = "ratelimit" => pc[p] = "ratelimit")
          => /\ rateLimitTracker' = rateLimitTracker
             /\ sem' = sem
             /\ history' = history
             /\ \A p \in Procs : pc'[p] # pc[p] => pc'[p] = "done"]_vars

\* a refused call was made after an admitted one, inside the same window:
\* the tracker holds the one timestamp of the admitted call, and the
\* history its one entry
C35_Witness ==
    \E p, q \in Procs :
        /\ p # q
        /\ pc[p] = "done"
        /\ Rejected(validationErr[p])
        /\ resp[p].ExitCode = -1
        /\ pc[q] = "done"
        /\ ~Rejected(validationErr[q])
        /\ resp[q].ExitCode = 0
        /\ startTime[p] = startTime[q]
        /\ rateLimitTracker["default"] = <<startTime[q]>>
        /\ Len(history) = 1
        /\ sem = maxConcurrent

\* C36: the rate limiter is a sliding window per key: a request is admitted
\* exactly when fewer than rateLimit admitted requests of its key are
\* younger than the window at its time; the tracker of a key holds the
\* admitted timestamps that were younger than the window at the key's last
\* admission and nothing else (a refused request records none), never more
\* than rateLimit of them
C36_SlidingWindow ==
    \A k \in ClientKeys :
        LET log == rlLog[k]
            admitted == SelectSeq(log, LAMBDA x : x.ok)
        IN  /\ \A i \in 1..Len(log) :
                   log[i].ok <=>
                       Cardinality({j \in 1..(i - 1) :
                                        /\ log[j].ok
                                        /\ log[i].t - log[j].t < RateLimitWindow})
                           < rateLimit
            /\ Len(rateLimitTracker[k]) <= rateLimit
            /\ IF admitted = <<>> THEN rateLimitTracker[k] = <<>>
               ELSE LET last == admitted[Len(admitted)].t
                        kept == SelectSeq(admitted,
                                          LAMBDA x : last - x.t < RateLimitWindow)
                    IN  rateLimitTracker[k] = [i \in 1..Len(kept) |-> kept[i].t]

\* with limit 1, a key admitted at 0 was refused half a window later and
\* admitted again when its timestamp was exactly one window old
C36_Witness ==
    \E k \in ClientKeys :
        /\ rateLimit = 1
        /\ Len(rlLog[k]) = 3
        /\ rlLog[k][1].ok /\ rlLog[k][1].t = 0
        /\ ~rlLog[k][2].ok /\ rlLog[k][2].t < RateLimitWindow
        /\ rlLog[k][3].ok /\ rlLog[k][3].t = RateLimitWindow
        /\ rateLimitTracker[k] = <<RateLimitWindow>>

\* C37: every slot a call of ExecuteCommand acquires is given back exactly
\* once on each of its return paths: in every reachable state the free
\* slots plus the calls between the select and their return are
\* max_concurrent (so with no such call every slot is free), a call holds a
\* slot exactly in that phase, and the deferred release finds room in the
\* channel
C37_SlotsBalance ==
    LET executing == {p \in Procs : pc[p] \in {"start", "running", "history", "return"}}
    IN  /\ sem + Cardinality(executing) = maxConcurrent
        /\ executing = {} => sem = maxConcurrent
        /\ \A p \in Procs : p \in executing => acquired[p]
        /\ \A p \in executing : sem < SemaphoreCap

\* two calls have returned, one refused for its environment and one killed
\* at its timeout, and every slot is free again
C37_Witness ==
    \E p, q \in Procs :
        /\ pc[p] = "done" /\ acquired[p] /\ resp[p] = EnvRejectedResponse
        /\ pc[q] = "done" /\ acquired[q] /\ resp[q].ExitCode = -2
        /\ sem = maxConcurrent

\* C38: exit code -2 is reported only for a child that was still running
\* when the deadline of its own timeout_seconds elapsed and was killed for
\* it: a child that ended by itself is reported with its own status.
C38_TimeoutOnlyWhenKilled ==
    \A p \in Procs :
        (pc[p] \in {"history", "return", "done"} /\ spawned[p] = 1)
        => /\ resp[p].ExitCode = -2 => child[p].state = "killed"
           /\ (child[p].state = "exited" /\ child[p].status # 0)
              => resp[p].ExitCode = child[p].status

\* C39: the timestamp of a request that passes the rate-limit check is
\* recorded in the step of the check, before the select on the semaphore
\* and the env validation, and the returns for the concurrency limit and
\* for the environment leave it there: a call refused by either still has
\* its start time in the tracker of its key while that time is younger
\* than the window
C39_RefusedStillCounts ==
    /\ [](\A p \in Procs :
              (/\ pc[p] = "done"
               /\ resp[p] \in {SlotsExhaustedResponse, EnvRejectedResponse}
               /\ now - startTime[p] < RateLimitWindow)
              => \E i \in 1..Len(rateLimitTracker[clientKey[p]]) :
                     rateLimitTracker[clientKey[p]][i] = startTime[p])
    /\ [][\A p \in Procs :
              /\ (pc[p] = "ratelimit" /\ pc'[p] = "acquire")
                 => /\ rateLimitTracker'[clientKey[p]] # <<>>
                    /\ rateLimitTracker'[clientKey[p]]
                           [Len(rateLimitTracker'[clientKey[p]])] = now
                    /\ sem' = sem
              /\ (pc[p] \in {"acquire", "start"} /\ pc'[p] = "done")
                 => rateLimitTracker' = rateLimitTracker]_vars

\* with a limit of one request per window, a call was refused for its
\* environment and the next call, in the same window, was refused by the
\* rate limiter; no command has run
C39_Witness ==
    \E p, q \in Procs :
        /\ rateLimit = 1
        /\ pc[p] = "done" /\ resp[p] = EnvRejectedResponse
        /\ pc[q] = "done" /\ Rejected(resp[q].Error)
        /\ resp[q].Error[1] = "rate limit exceeded: "
        /\ startTime[q] = startTime[p]
        /\ history = <<>>
        /\ \A r \in Procs : spawned[r] = 0

\* C40: CreateTenant is all-or-nothing: a call that inserted its record and
\* returned the error of the schema creation has left no record of its
\* tenant, and a call that returned its tenant has left the record, the
\* schema and the schema's table.
C40_AllOrNothing ==
    \A c \in TenantCallers :
        (db.calls[c].pc = "returned" /\ db.calls[c].inserted)
        => IF Rejected(db.calls[c].err)
           THEN db.calls[c].tenant \notin db.tenants
           ELSE /\ db.calls[c].tenant \in db.tenants
                /\ db.calls[c].tenant.SchemaName \in db.schemas
                /\ db.calls[c].tenant.SchemaName \in db.tables
====
